---------------------------- MODULE Spec2Model ----------------------------
(***************************************************************************)
(* A model of the rock-paper-scissors game of src/rock_paper_scissors.py:  *)
(* the round resolver (determine_winner), the match bookkeeping            *)
(* (reset_game, the countdown / detection / result cycle of run) and the   *)
(* opponent engine (get_computer_choice, pattern_based_choice,             *)
(* counter_strategy_choice, get_winning_move_against).                     *)
(*                                                                         *)
(* Numbers.  ai_difficulty and the random.random() draws are kept in       *)
(* hundredths (0.7 is 70).  The pattern confidences and the counter        *)
(* weights are IEEE doubles in the source; see the section on doubles.     *)
(***************************************************************************)
EXTENDS Integers, Sequences, FiniteSets, TLC

VARIABLES
    game_state,           \* self.game_state
    countdown,            \* self.countdown
    computer_choice,      \* self.computer_choice (None before the first round)
    user_choice,          \* self.user_choice
    result,               \* self.result
    score,                \* self.score = {"user": n, "computer": n}
    rounds_played,        \* self.rounds_played
    detected_gestures,    \* self.detected_gestures (labels of the current window)
    player_move_history,  \* self.player_move_history = deque(maxlen=10)
    game_history,         \* self.game_history
    ai_mode,              \* self.ai_mode
    ai_difficulty,        \* self.ai_difficulty, in hundredths
    detection_duration,   \* self.detection_duration, in tenths of a second
    gesture_history,      \* self.hand_detector.gesture_history (finger counts)
    detected_gesture,     \* detected_gesture of run(): what get_gesture returned
    use_keyboard,         \* use_keyboard of run()
    show_help,            \* show_help of run()
    phase,                \* where run() is in its loop body: "frame" before the
                          \* game-over check, "key" before the key is read
    op,                   \* the method of the game object that ran last
    via                   \* the return statement that produced computer_choice

vars == << game_state, countdown, computer_choice, user_choice, result, score,
           rounds_played, detected_gestures, player_move_history, game_history,
           ai_mode, ai_difficulty, detection_duration, gesture_history,
           detected_gesture, use_keyboard, show_help, phase, op, via >>

None == "none"

\* self.choices, in the order of the list
choices == << "rock", "paper", "scissors" >>

Moves == { choices[i] : i \in 1..3 }

Modes == { "random", "counter", "pattern", "adaptive" }

\* self.max_rounds
max_rounds == 5

\* deque(maxlen=10)
history_maxlen == 10

-----------------------------------------------------------------------------
(* Sequence helpers standing for Python's list operations.                 *)

\* s[-n:]
LastN(s, n) == IF Len(s) <= n THEN s ELSE SubSeq(s, Len(s) - n + 1, Len(s))

\* s[-1]
Last(s) == s[Len(s)]

\* set(s)
Range(s) == { s[i] : i \in 1..Len(s) }

\* Counter(s)[m]
Count(s, m) == Cardinality({ i \in 1..Len(s) : s[i] = m })

\* a full deque that drops its newest entry
DequeDropsNewest(d, x, n) == IF Len(d) >= n THEN Append(SubSeq(d, 1, n - 1), x) ELSE Append(d, x)

\* deque(maxlen=n).append(x): the oldest entry is dropped when the deque is full
DequeAppend(d, x, n) == IF Len(d) >= n THEN Append(Tail(d), x) ELSE Append(d, x)

-----------------------------------------------------------------------------
(* IEEE-754 doubles.  The weights of counter_strategy_choice and the       *)
(* confidences of pattern_based_choice are Python floats, and which of two *)
(* of them is larger decides the move (1.1 + 1.2 is larger than 1.0 + 1.3  *)
(* in doubles), so they are computed here as doubles are: every operation  *)
(* gives the exact result rounded to 53 significant bits, ties to even.    *)
(* A double x with 0 <= x < 32 is the pair <<hi, lo>> of the integer       *)
(* x * 2^56 = hi * 2^30 + lo.                                              *)

Limb == 2^30

\* the number of bits of n
RECURSIVE BitLen(_)
BitLen(n) == IF n = 0 THEN 0 ELSE 1 + BitLen(n \div 2)

\* carry from lo into hi
Norm(hi, lo) == << hi + (lo \div Limb), lo % Limb >>

\* the exact sum of two pairs
ExactAdd(x, y) == Norm(x[1] + y[1], x[2] + y[2])

\* the exact product of a pair and a small natural number
RECURSIVE ExactTimes(_, _)
ExactTimes(x, i) == IF i = 0 THEN << 0, 0 >> ELSE ExactAdd(ExactTimes(x, i - 1), x)

\* the weight of the last place of a 53-bit significand whose value has
\* high limb hi
Ulp(hi) == IF BitLen(hi) > 23 THEN 2^(BitLen(hi) - 23) ELSE 1

\* an exact value rounded to 53 significant bits, ties to even
Round53(x) ==
    LET u    == Ulp(x[1])
        r    == x[2] % u
        odd  == (x[2] \div u) % 2 = 1
        up   == u > 1 /\ (2 * r > u \/ (2 * r = u /\ odd))
    IN  Norm(x[1], x[2] - r + (IF up THEN u ELSE 0))

\* x + y
DAdd(x, y) == Round53(ExactAdd(x, y))

\* x * i for an int i (Python converts i to a float, exactly)
DTimes(x, i) == Round53(ExactTimes(x, i))

\* x / 2^k, for an x that is a multiple of 2^k
RECURSIVE Halve(_, _)
Halve(x, k) ==
    IF k = 0 THEN x
    ELSE Halve(<< x[1] \div 2, ((x[1] % 2) * Limb + x[2]) \div 2 >>, k - 1)

\* x * (l / 4) for l in 2..4 and x >= 1/8: l / 4 is an exact double, so the
\* product is the exact x * l / 4 rounded once (rounding 3 * x and dividing
\* by 4 afterwards is the same, a division by 4 being exact)
DTimesQuarters(x, l) ==
    IF l = 4 THEN x
    ELSE IF l = 2 THEN Halve(x, 1)
    ELSE Halve(Round53(ExactTimes(x, 3)), 2)

\* x < y, x <= y
DLess(x, y) == x[1] < y[1] \/ (x[1] = y[1] /\ x[2] < y[2])

DLeq(x, y) == ~DLess(y, x)

\* min(x, y) of Python: y when y < x, else x
DMin(x, y) == IF DLess(y, x) THEN y ELSE x

\* The double nearest to c / n for ints with 1/16 <= c / n < 32 and
\* n <= 2^15: the value of c / n in Python and of the float literal with
\* that decimal value.  The long division gives c * 2^56 / n in five steps
\* (13, 13, 15 and 15 bits of the fraction, then 15 bits more to round by);
\* what is left of c after them is not zero iff the quotient goes on.
DDiv(c, n) ==
    LET d1 == ((c % n) * 2^13) \div n
        r1 == ((c % n) * 2^13) % n
        d2 == (r1 * 2^13) \div n
        r2 == (r1 * 2^13) % n
        d3 == (r2 * 2^15) \div n
        r3 == (r2 * 2^15) % n
        d4 == (r3 * 2^15) \div n
        r4 == (r3 * 2^15) % n
        guard == (r4 * 2^15) \div n
        more  == (r4 * 2^15) % n # 0
        hi == (c \div n) * 2^26 + d1 * 2^13 + d2
        lo == d3 * 2^15 + d4
        u  == Ulp(hi)
        r  == lo % u
        odd == (lo \div u) % 2 = 1
        up == IF u > 1
              THEN 2 * r > u \/ (2 * r = u /\ (guard > 0 \/ more \/ odd))
              ELSE guard > 2^14 \/ (guard = 2^14 /\ (more \/ odd))
    IN  Norm(hi, lo - r + (IF up THEN u ELSE 0))

DZero == << 0, 0 >>

\* the double a decimal literal with two places denotes: Literal[70] is the
\* double of 0.7, Literal[200] that of 2.0
Literal == [ n \in 10..200 |-> DDiv(n, 100) ]

-----------------------------------------------------------------------------
(* get_winning_move_against and the outcome rule of determine_winner.      *)

\* a table that answers paper with rock
WinningMoveSwapped(move, pick) ==
    IF move = "rock" THEN "paper"
    ELSE IF move = "paper" THEN "rock"
    ELSE IF move = "scissors" THEN "rock"
    ELSE pick

\* get_winning_move_against(move); pick is what random.choice(self.choices)
\* yields in the else branch
get_winning_move_against(move, pick) ==
    IF move = "rock" THEN "paper"
    ELSE IF move = "paper" THEN "scissors"
    ELSE IF move = "scissors" THEN "rock"
    ELSE pick

-----------------------------------------------------------------------------
(* counter_strategy_choice.                                                *)

\* recency_weight = 1.0 + (0.1 * i) for the entry at index i (0 is the oldest)
recency_weight == [ i \in 0..(history_maxlen - 1) |-> DAdd(Literal[100], DTimes(Literal[10], i)) ]

RecencyWeight(i) == recency_weight[i]

\* move_weights[move] after the loop over the first k entries of the history
RECURSIVE RecencySum(_, _, _)
RecencySum(history_list, move, k) ==
    IF k = 0 THEN DZero
    ELSE LET w == RecencySum(history_list, move, k - 1)
         IN  IF history_list[k] = move THEN DAdd(w, RecencyWeight(k - 1)) ELSE w

\* weights without the recent-trend bonus
MoveWeightNoBonus(history_list, move) == RecencySum(history_list, move, Len(history_list))

\* move_weights[move] after the recent-trend bonus: + 2.0 for a move used at
\* least twice in the last 3 entries
MoveWeight(history_list, move) ==
    LET w == RecencySum(history_list, move, Len(history_list))
    IN  IF Len(history_list) >= 3 /\ Count(LastN(history_list, 3), move) >= 2
        THEN DAdd(w, Literal[200])
        ELSE w

\* the places in self.choices of the moves not used in the last 5 entries
UnusedInLastFive(history_list) ==
    { i \in 1..3 : Count(LastN(history_list, 5), choices[i]) = 0 }

\* the smallest element of a non-empty set of integers
Min(S) == CHOOSE x \in S : \A y \in S : x <= y

\* max(move_weights.items(), key=weight)[0]: the first move, in the order
\* rock, paper, scissors of the dict, that no other move outweighs
MostCommonMove(history_list) ==
    LET w(i) == MoveWeight(history_list, choices[i])
    IN  choices[Min({ i \in 1..3 : \A j \in 1..3 :
                         IF j < i THEN DLess(w(j), w(i)) ELSE DLeq(w(j), w(i)) })]

\* a counter strategy that answers with the unused move itself
CounterPlaysUnused(history_list, pick) ==
    IF Len(history_list) < 2 THEN pick
    ELSE IF Len(history_list) >= 5 /\ UnusedInLastFive(history_list) # {}
    THEN choices[Min(UnusedInLastFive(history_list))]
    ELSE get_winning_move_against(MostCommonMove(history_list), pick)

\* counter_strategy_choice() on history_list = list(self.player_move_history);
\* pick is what random.choice(self.choices) yields
counter_strategy_choice(history_list, pick) ==
    IF Len(history_list) < 2 THEN pick
    ELSE IF Len(history_list) >= 5 /\ UnusedInLastFive(history_list) # {}
    THEN get_winning_move_against(choices[Min(UnusedInLastFive(history_list))], pick)
    ELSE get_winning_move_against(MostCommonMove(history_list), pick)

-----------------------------------------------------------------------------
(* pattern_based_choice: the detectors, each giving a sequence of          *)
(* [move, confidence] predictions (empty when it does not fire).           *)

Prediction(move, confidence) == [move |-> move, confidence |-> confidence]

\* repeat_patterns: the blocks history_list[i:i+3], i in range(0, len - 3, 3),
\* that hold one move only
RepeatPatterns(history_list) ==
    Cardinality({ i \in 0..(Len(history_list) - 4) :
                    /\ i % 3 = 0
                    /\ Cardinality(Range(SubSeq(history_list, i + 1, i + 3))) = 1 })

\* a smaller of two ints
MinInt(a, b) == IF a < b THEN a ELSE b

\* 1. the same move three times: confidence 0.7 + (0.1 * min(repeat_patterns, 3))
RepeatDetector(history_list) ==
    IF Cardinality(Range(LastN(history_list, 3))) = 1
    THEN << Prediction(LastN(history_list, 3)[1],
                       DAdd(Literal[70],
                            DTimes(Literal[10], MinInt(RepeatPatterns(history_list), 3)))) >>
    ELSE << >>

\* 2. a-b-a-b in the last four: confidence 0.8
AlternationDetector(history_list) ==
    LET last_four == LastN(history_list, 4)
    IN  IF /\ Len(history_list) >= 4
           /\ last_four[1] = last_four[3]
           /\ last_four[2] = last_four[4]
        THEN << Prediction(last_four[1], Literal[80]) >>
        ELSE << >>

\* a-b-c-a-b-c in the last six: confidence 0.85
CycleDetector(history_list) ==
    LET last_six == LastN(history_list, 6)
    IN  IF /\ Len(history_list) >= 6
           /\ last_six[1] = last_six[4]
           /\ last_six[2] = last_six[5]
           /\ last_six[3] = last_six[6]
        THEN << Prediction(last_six[1], Literal[85]) >>
        ELSE << >>

\* the 1-based places i + seq_length + 1 of sequence_followers: what came
\* after each earlier occurrence history_list[i:i+seq_length] of the tail
FollowerPlaces(history_list, seq_length) ==
    { p \in (seq_length + 1)..Len(history_list) :
        SubSeq(history_list, p - seq_length, p - 1) = LastN(history_list, seq_length) }

\* Counter(sequence_followers).most_common(1)[0][0]: the most frequent
\* follower, the one met first among equally frequent ones
MostCommonFollower(history_list, seq_length) ==
    LET places   == FollowerPlaces(history_list, seq_length)
        n(m)     == Cardinality({ p \in places : history_list[p] = m })
        first(m) == Min({ p \in places : history_list[p] = m })
    IN  CHOOSE m \in Moves :
          /\ n(m) > 0
          /\ \A o \in Moves \ {m} : n(o) < n(m) \/ (n(o) = n(m) /\ first(m) < first(o))

\* 3. the follower of the tail of length seq_length: confidence
\* min(0.9, 0.6 + (count / len(sequence_followers)) * (seq_length / 4))
FollowerDetector(history_list, seq_length) ==
    LET places == FollowerPlaces(history_list, seq_length)
        move   == MostCommonFollower(history_list, seq_length)
        count  == Cardinality({ p \in places : history_list[p] = move })
    IN  IF places # {}
        THEN << Prediction(move,
                  DMin(Literal[90],
                       DAdd(Literal[60],
                            DTimesQuarters(DDiv(count, Cardinality(places)), seq_length)))) >>
        ELSE << >>

\* the loop for seq_length in range(2, min(5, len(history_list) - 1))
RECURSIVE FollowerDetectors(_, _)
FollowerDetectors(history_list, seq_length) ==
    IF seq_length >= MinInt(5, Len(history_list) - 1) THEN << >>
    ELSE FollowerDetector(history_list, seq_length)
           \o FollowerDetectors(history_list, seq_length + 1)

\* 4. all three moves in the last five: the first move of self.choices that
\* is neither of the last two, confidence 0.6
CyclingDetector(history_list) ==
    LET unused == { i \in 1..3 : /\ choices[i] # Last(history_list)
                                 /\ choices[i] # history_list[Len(history_list) - 1] }
    IN  IF /\ Cardinality(Range(LastN(history_list, 5))) = 3
           /\ Len(history_list) >= 5
           /\ unused # {}
        THEN << Prediction(choices[Min(unused)], Literal[60]) >>
        ELSE << >>

\* 5. after a round the computer won: the move that beats the computer's
\* last move, confidence 0.65
PostLossDetector(history, pick) ==
    IF /\ Len(history) >= 2
       /\ Last(history).winner = "computer"
       /\ Last(history).user_choice # None
       /\ Last(history).computer_choice # None
    THEN << Prediction(get_winning_move_against(Last(history).computer_choice, pick),
                       Literal[65]) >>
    ELSE << >>

\* predictions and confidence_scores, in the order they are appended
Predictions(history_list, history, pick) ==
    RepeatDetector(history_list)
      \o AlternationDetector(history_list)
      \o CycleDetector(history_list)
      \o FollowerDetectors(history_list, 2)
      \o CyclingDetector(history_list)
      \o PostLossDetector(history, pick)

\* a selection that takes the last prediction made
LastPrediction(predictions) == predictions[Len(predictions)]

\* predictions[confidence_scores.index(max(confidence_scores))]: the first
\* prediction of the highest confidence
BestPrediction(predictions) ==
    predictions[Min({ i \in 1..Len(predictions) : \A j \in 1..Len(predictions) :
                        DLeq(predictions[j].confidence, predictions[i].confidence) })]

\* a pattern strategy that draws at random when no detector fires
PatternFallsBackRandom(history_list, history, pick) ==
    LET predictions == Predictions(history_list, history, pick)
    IN  IF Len(history_list) < 3 THEN pick
        ELSE IF predictions # << >>
        THEN get_winning_move_against(BestPrediction(predictions).move, pick)
        ELSE IF pick = "rock" THEN "paper" ELSE "rock"

\* pattern_based_choice() on history_list = list(self.player_move_history)
\* and history = self.game_history
pattern_based_choice(history_list, history, pick) ==
    LET predictions == Predictions(history_list, history, pick)
    IN  IF Len(history_list) < 3 THEN pick
        ELSE IF predictions # << >>
        THEN get_winning_move_against(BestPrediction(predictions).move, pick)
        ELSE counter_strategy_choice(history_list, pick)

-----------------------------------------------------------------------------
(* get_computer_choice.                                                    *)

\* win_streak and loss_streak: 3 when the last three rounds all went to the
\* computer (to the user), else 0
WinStreak(history) ==
    IF Len(history) >= 3 /\ \A i \in 1..3 : LastN(history, 3)[i].winner = "computer"
    THEN 3 ELSE 0

LossStreak(history) ==
    IF /\ Len(history) >= 3
       /\ ~(\A i \in 1..3 : LastN(history, 3)[i].winner = "computer")
       /\ \A i \in 1..3 : LastN(history, 3)[i].winner = "user"
    THEN 3 ELSE 0

Choice(move, by) == [move |-> move, via |-> by]

\* the adaptive branch of get_computer_choice
AdaptiveChoice(rnd) ==
    LET last_round == Last(game_history)
        history_list == player_move_history
    IN  IF WinStreak(game_history) >= 2 /\ rnd.r2 < 70
        THEN IF rnd.r3 < 60
             THEN Choice(get_winning_move_against(
                           get_winning_move_against(last_round.user_choice, rnd.pick),
                           rnd.pick), "adaptive_anticipate")
             ELSE Choice(last_round.computer_choice, "adaptive_repeat")
        ELSE IF LossStreak(game_history) >= 2
        THEN IF rnd.r2 < 50
             THEN Choice(pattern_based_choice(history_list, game_history, rnd.pick),
                         "adaptive_loss_pattern")
             ELSE Choice(rnd.pick, "adaptive_loss_random")
        ELSE IF rnd.idx = 0
        THEN Choice(pattern_based_choice(history_list, game_history, rnd.pick),
                    "adaptive_mix_pattern")
        ELSE IF rnd.idx = 1
        THEN Choice(counter_strategy_choice(history_list, rnd.pick), "adaptive_mix_counter")
        ELSE Choice(rnd.pick, "adaptive_mix_random")

\* an engine that hands back None when the history is short
GetComputerChoiceNone(rnd) ==
    IF Len(player_move_history) < 3 THEN Choice(None, "random")
    ELSE IF ai_mode = "random" \/ rnd.r1 > ai_difficulty THEN Choice(rnd.pick, "random")
    ELSE IF ai_mode = "pattern"
    THEN Choice(pattern_based_choice(player_move_history, game_history, rnd.pick), "pattern")
    ELSE IF ai_mode = "counter"
    THEN Choice(counter_strategy_choice(player_move_history, rnd.pick), "counter")
    ELSE IF ai_mode = "adaptive" THEN AdaptiveChoice(rnd)
    ELSE Choice(rnd.pick, "fallback")

\* get_computer_choice(): the move returned and the return statement that
\* gave it.  rnd holds what the random module yields in this call: r1, r2, r3
\* the random.random() draws in hundredths, in the order they are made, idx
\* the index drawn by random.choices with weights 0.5, 0.3, 0.2, and pick the
\* move drawn by random.choice(self.choices)
get_computer_choice(rnd) ==
    IF \/ Len(player_move_history) < 3
       \/ ai_mode = "random"
       \/ rnd.r1 > ai_difficulty
    THEN Choice(rnd.pick, "random")
    ELSE IF ai_mode = "pattern"
    THEN Choice(pattern_based_choice(player_move_history, game_history, rnd.pick), "pattern")
    ELSE IF ai_mode = "counter"
    THEN Choice(counter_strategy_choice(player_move_history, rnd.pick), "counter")
    ELSE IF ai_mode = "adaptive" THEN AdaptiveChoice(rnd)
    ELSE Choice(rnd.pick, "fallback")

-----------------------------------------------------------------------------
(* determine_winner and reset_game.                                        *)

\* a resolver that lets scissors beat rock
WinnerSwapped(user, computer) ==
    IF user = computer THEN "tie"
    ELSE IF \/ (user = "scissors" /\ computer = "rock")
            \/ (user = "paper" /\ computer = "rock")
            \/ (user = "scissors" /\ computer = "paper")
         THEN "user"
    ELSE "computer"

\* a resolver in which scissors also beat rock
WinnerLopsided(user, computer) ==
    IF user = computer THEN "tie"
    ELSE IF \/ (user = "rock" /\ computer = "scissors")
            \/ (user = "scissors" /\ computer = "rock")
            \/ (user = "paper" /\ computer = "rock")
            \/ (user = "scissors" /\ computer = "paper")
         THEN "user"
    ELSE "computer"

\* the if / elif / else of determine_winner
Winner(user, computer) ==
    IF user = computer THEN "tie"
    ELSE IF \/ (user = "rock" /\ computer = "scissors")
            \/ (user = "paper" /\ computer = "rock")
            \/ (user = "scissors" /\ computer = "paper")
         THEN "user"
    ELSE "computer"

\* the result string of determine_winner
ResultText(winner) ==
    IF winner = "tie" THEN "It's a tie!"
    ELSE IF winner = "user" THEN "You win!"
    ELSE "Computer wins!"

\* a score that counts a tie for the computer
ScoreTieToComputer(s, winner) ==
    IF winner = "user" THEN [s EXCEPT !.user = @ + 1]
    ELSE [s EXCEPT !.computer = @ + 1]

\* self.score after the outcome branch
ScoreAfter(s, winner) ==
    IF winner = "user" THEN [s EXCEPT !.user = @ + 1]
    ELSE IF winner = "computer" THEN [s EXCEPT !.computer = @ + 1]
    ELSE s

\* a streak that restarts at 1 in every round
StreakNoCarry(history, winner) == 1

\* current_streak of determine_winner: 1, or the last record's streak + 1
\* when the last record has the same winner
CurrentStreak(history, winner) ==
    IF history # << >> /\ Last(history).winner = winner
    THEN Last(history).current_streak + 1
    ELSE 1

\* previous_move of determine_winner, read after the append to the deque
PreviousMove(moves) == IF Len(moves) > 1 THEN moves[Len(moves) - 1] ELSE None

\* a record that always names the mode the game is constructed with
RoundDataFirstMode(user, computer, winner, played, newScore, moves) ==
    [ round_number       |-> played,
      user_choice        |-> user,
      computer_choice    |-> computer,
      winner             |-> winner,
      ai_mode            |-> "random",
      ai_difficulty      |-> ai_difficulty,
      user_score         |-> newScore.user,
      computer_score     |-> newScore.computer,
      current_streak     |-> CurrentStreak(game_history, winner),
      streak_type        |-> winner,
      previous_user_move |-> PreviousMove(moves),
      detection_duration |-> detection_duration ]

\* round_data of determine_winner; timestamp and decision_time are wall-clock
\* readings and are left out, match_progress is round_number / max_rounds
RoundData(user, computer, winner, played, newScore, moves) ==
    [ round_number       |-> played,
      user_choice        |-> user,
      computer_choice    |-> computer,
      winner             |-> winner,
      ai_mode            |-> ai_mode,
      ai_difficulty      |-> ai_difficulty,
      user_score         |-> newScore.user,
      computer_score     |-> newScore.computer,
      current_streak     |-> CurrentStreak(game_history, winner),
      streak_type        |-> winner,
      previous_user_move |-> PreviousMove(moves),
      detection_duration |-> detection_duration ]

\* determine_winner(user, computer): the whole method, as an update of the
\* fields it writes; it returns the result string
determine_winner(user, computer) ==
    LET winner   == Winner(user, computer)
        played   == rounds_played + 1
        moves    == DequeAppend(player_move_history, user, history_maxlen)
        newScore == ScoreAfter(score, winner)
    IN  /\ rounds_played' = played
        /\ player_move_history' = moves
        /\ score' = newScore
        /\ game_history' = Append(game_history,
                              RoundData(user, computer, winner, played, newScore, moves))
        /\ result' = ResultText(winner)
        /\ op' = "determine_winner"

\* a reset that starts the match history afresh
ResetClearsHistory ==
    /\ score' = [user |-> 0, computer |-> 0]
    /\ rounds_played' = 0
    /\ game_state' = "countdown"
    /\ countdown' = 3
    /\ detected_gestures' = << >>
    /\ game_history' = << >>
    /\ op' = "reset_game"
    /\ UNCHANGED << computer_choice, user_choice, result, player_move_history,
                    ai_mode, ai_difficulty, detection_duration, use_keyboard, via >>

\* a reset that also empties the player's move history
ResetForgetsMoves ==
    /\ score' = [user |-> 0, computer |-> 0]
    /\ rounds_played' = 0
    /\ game_state' = "countdown"
    /\ countdown' = 3
    /\ detected_gestures' = << >>
    /\ player_move_history' = << >>
    /\ op' = "reset_game"
    /\ UNCHANGED << computer_choice, user_choice, result, game_history, ai_mode,
                    ai_difficulty, detection_duration, use_keyboard, via >>

\* reset_game(): the whole method; it writes score, rounds_played,
\* game_state, countdown and detected_gestures (and last_countdown_time, a
\* clock reading) and nothing else
reset_game ==
    /\ score' = [user |-> 0, computer |-> 0]
    /\ rounds_played' = 0
    /\ game_state' = "countdown"
    /\ countdown' = 3
    /\ detected_gestures' = << >>
    /\ op' = "reset_game"
    /\ UNCHANGED << computer_choice, user_choice, result, player_move_history,
                    game_history, ai_mode, ai_difficulty, detection_duration,
                    use_keyboard, via >>

-----------------------------------------------------------------------------
(* HandDetector.get_gesture.  A frame is what the contour analysis of       *)
(* lines 186-248 yields before the finger count is smoothed: contour is     *)
(* "none" when no contour was found, "small" when the convex hull has fewer *)
(* than 3 points, "error" when an OpenCV call raises, else "hand"; valleys  *)
(* is the number of defects with an angle of at most 90 degrees;            *)
(* circularity and solidity are in hundredths.                              *)

\* self.history_size
history_size == 10

Frame(contours, valleys, circularities, solidities) ==
    [ contour : contours, valleys : valleys, circularity : circularities,
      solidity : solidities ]

\* the integer part of the square root of a natural number
IntSqrt(n) == CHOOSE r \in 0..n : r * r <= n /\ (r + 1) * (r + 1) > n

\* 2 * x and 4 * x for a pair of limbs
Twice(x) == ExactAdd(x, x)

FourTimes(x) == Twice(Twice(x))

\* x - y for pairs of limbs with y <= x
ExactSub(x, y) ==
    IF x[2] >= y[2] THEN << x[1] - y[1], x[2] - y[2] >>
    ELSE << x[1] - y[1] - 1, x[2] + Limb - y[2] >>

\* k more binary digits of a square root computed digit by digit, the
\* radicand being continued by zeros: root and rem are the root so far and
\* what is left of the radicand under it
RECURSIVE SqrtDigits(_, _, _)
SqrtDigits(root, rem, k) ==
    IF k = 0 THEN << root, rem >>
    ELSE LET left  == FourTimes(rem)
             trial == ExactAdd(FourTimes(root), << 0, 1 >>)
         IN  IF DLeq(trial, left)
             THEN SqrtDigits(ExactAdd(Twice(root), << 0, 1 >>),
                             ExactSub(left, trial), k - 1)
             ELSE SqrtDigits(Twice(root), left, k - 1)

\* an exact value, of which x is the integer part in units of 2^-56 and
\* which goes on after it iff more, rounded to 53 significant bits, ties to
\* even
Round53More(x, more) ==
    LET u   == Ulp(x[1])
        r   == x[2] % u
        odd == (x[2] \div u) % 2 = 1
        up  == 2 * r > u \/ (2 * r = u /\ (more \/ odd))
    IN  Norm(x[1], x[2] - r + (IF up THEN u ELSE 0))

\* math.sqrt(n) ** 2 for an int n in 1..31, as a double.  math.sqrt(n) is
\* the 53-bit root m * 2^-digits nearest to the square root of n (the root
\* of the digits, one more if what is left exceeds it); its square is
\* n + d * 2^-(2 * digits) with d = m * m - n * 2^(2 * digits), which is
\* -rem or 2 * root + 1 - rem, and ** 2 rounds that to a double
SqrtSquared(n) ==
    LET digits == 53 - BitLen(IntSqrt(n))
        st     == SqrtDigits(<< 0, IntSqrt(n) >>,
                             << 0, n - IntSqrt(n) * IntSqrt(n) >>, digits)
        root   == st[1]
        rem    == st[2]
        up     == DLess(root, rem)
        d      == IF up THEN ExactSub(ExactAdd(Twice(root), << 0, 1 >>), rem)
                  ELSE rem
        shift  == 2^(2 * digits - 86)
        whole  == d[1] \div shift
        more   == d[1] % shift # 0 \/ d[2] # 0
    IN  IF d = << 0, 0 >> THEN << n * 2^26, 0 >>
        ELSE IF up THEN Round53More(<< n * 2^26, whole >>, more)
        ELSE Round53More(<< n * 2^26 - 1,
                            Limb - whole - (IF more THEN 1 ELSE 0) >>, more)

\* math.sqrt(n) ** 2 for the squared side lengths n below 32
side_squared == [ n \in 0..31 |-> IF n = 0 THEN DZero ELSE SqrtSquared(n) ]

\* the square of the distance of two points
Dist2(p, q) == (q[1] - p[1]) * (q[1] - p[1]) + (q[2] - p[2]) * (q[2] - p[2])

\* the test of a defect (start, end, far): a, b and c are the
\* math.sqrt of the squares of the sides; the defect is skipped when
\* b * c == 0, and it is a valley when
\* math.degrees(math.acos((b ** 2 + c ** 2 - a ** 2) / (2 * b * c))) <= 90.
\* On doubles of this size that holds iff the numerator is not negative: a
\* negative numerator is one unit of the last place of a ** 2 or more, which
\* makes the quotient -2^-54 or less, and math.acos of that is above the
\* double of pi / 2
IsValley(defect) ==
    LET a2 == Dist2(defect.start, defect.end)
        b2 == Dist2(defect.start, defect.far)
        c2 == Dist2(defect.end, defect.far)
    IN  /\ b2 # 0
        /\ c2 # 0
        /\ DLeq(side_squared[a2], DAdd(side_squared[b2], side_squared[c2]))

\* the valleys counted in the loop over the defects (none for defects None)
Valleys(defects) == Cardinality({ i \in 1..Len(defects) : IsValley(defects[i]) })

\* extended_fingers before smoothing: one more than the valleys, if any
ExtendedFingers(frame) == IF frame.valleys > 0 THEN frame.valleys + 1 ELSE 0

\* is_scissors: two fingers counted in this frame and a shape that is not
\* round
IsScissors(frame) == ExtendedFingers(frame) = 2 /\ frame.valleys >= 1 /\ frame.circularity < 70

\* a history that keeps the oldest count when it is full
PushDropsNewest(history, count) ==
    IF Len(history) >= history_size THEN history ELSE Append(history, count)

\* gesture_history.append(extended_fingers), then pop(0) beyond history_size
PushCount(history, count) ==
    IF Len(Append(history, count)) > history_size
    THEN Tail(Append(history, count))
    ELSE Append(history, count)

\* the keys of the dict counts, in the order they are inserted: the counts of
\* the history without repetition, in the order they are first met
RECURSIVE CountKeys(_)
CountKeys(history) ==
    IF history = << >> THEN << >>
    ELSE LET before == CountKeys(SubSeq(history, 1, Len(history) - 1))
         IN  IF Last(history) \in Range(before) THEN before
             ELSE Append(before, Last(history))

\* a vote that takes the last of the most frequent counts
LastMostCommonCount(history) ==
    LET keys == CountKeys(history)
    IN  keys[CHOOSE i \in 1..Len(keys) :
               \A j \in 1..Len(keys) :
                  \/ Count(history, keys[j]) < Count(history, keys[i])
                  \/ Count(history, keys[j]) = Count(history, keys[i]) /\ j <= i]

\* max(counts, key=counts.get): the first key, in insertion order, whose
\* count no other key exceeds
MostCommonCount(history) ==
    LET keys == CountKeys(history)
    IN  keys[Min({ i \in 1..Len(keys) :
                     \A j \in 1..Len(keys) :
                        Count(history, keys[j]) <= Count(history, keys[i]) })]

\* a chain that takes a fist by its finger count only
ClassifyByCountOnly(extended_fingers, frame) ==
    IF extended_fingers <= 1 THEN "rock"
    ELSE IF extended_fingers = 2 \/ IsScissors(frame) THEN "scissors"
    ELSE IF extended_fingers >= 4 \/ (extended_fingers >= 3 /\ frame.solidity < 75)
    THEN "paper"
    ELSE "rock"

\* the chain of lines 278-290 on the smoothed count
Classify(extended_fingers, frame) ==
    IF extended_fingers <= 1 \/ (frame.circularity > 70 /\ frame.solidity > 80)
    THEN "rock"
    ELSE IF extended_fingers = 2 \/ IsScissors(frame) THEN "scissors"
    ELSE IF extended_fingers >= 4 \/ (extended_fingers >= 3 /\ frame.solidity < 75)
    THEN "paper"
    ELSE "rock"

\* get_gesture(contour): the label returned and gesture_history after the
\* call
get_gesture(frame) ==
    IF frame.contour = "none" THEN [ gesture |-> None, history |-> gesture_history ]
    ELSE IF frame.contour = "error" THEN [ gesture |-> None, history |-> gesture_history ]
    ELSE IF frame.contour = "small"
    THEN [ gesture |-> "rock", history |-> gesture_history ]
    ELSE LET history == PushCount(gesture_history, ExtendedFingers(frame))
         IN  [ gesture |-> Classify(MostCommonCount(history), frame),
               history |-> history ]

-----------------------------------------------------------------------------
(* The states of run(), one action per transition of its round cycle       *)
(* countdown -> detection -> result -> countdown.  The clock readings      *)
(* (time.time() compared with a start time) are inputs: a step either      *)
(* finds its delay elapsed or not.                                         *)

\* the values the second random.random() draw is taken from, in hundredths:
\* one below the thresholds 0.5 and 0.7 it is compared with, one between
\* them, one above both; 0 and 99 do for the first draw (compared with
\* ai_difficulty) and for the third (compared with 0.6)
Draws == { 0, 65, 99 }

\* what the random module can yield in one get_computer_choice call: the
\* random.random() draws r1, r2, r3, the random.choices index idx and the
\* random.choice(self.choices) result pick
Random(first, second, third, indexes, picks) ==
    [ r1 : first, r2 : second, r3 : third, idx : indexes, pick : picks ]

\* the values of ai_difficulty the engine is run with, in hundredths: the
\* two ends of [0, 1]
Difficulties == { 0, 100 }

\* a match running over the game-over check
GameOverLate == rounds_played > max_rounds /\ game_state # "menu"

\* the check at the top of the loop of run(): the match is over
GameOver == rounds_played >= max_rounds /\ game_state # "menu"

\* the state after __init__, the two settings being given
InitWith(mode, difficulty) ==
    /\ game_state = "countdown"
    /\ countdown = 3
    /\ computer_choice = None
    /\ user_choice = None
    /\ result = None
    /\ score = [user |-> 0, computer |-> 0]
    /\ rounds_played = 0
    /\ detected_gestures = << >>
    /\ player_move_history = << >>
    /\ game_history = << >>
    /\ ai_mode = mode
    /\ ai_difficulty = difficulty
    /\ detection_duration = 30
    /\ gesture_history = << >>
    /\ detected_gesture = None
    /\ use_keyboard = FALSE
    /\ show_help = FALSE
    /\ phase = "frame"
    /\ op = "init"
    /\ via = None

\* the state after __init__
Init == InitWith("random", 70)

\* a countdown whose strategies take the moves they read out of the history
CountdownFrameConsumes(random) ==
    /\ ~GameOver
    /\ phase = "frame"
    /\ ~show_help
    /\ game_state = "countdown"
    /\ \E elapsed \in BOOLEAN :
         LET count == IF elapsed THEN countdown - 1 ELSE countdown
         IN  /\ countdown' = count
             /\ IF count <= 0
                THEN \E rnd \in random :
                       LET choice == get_computer_choice(rnd)
                       IN  /\ game_state' = "detection"
                           /\ computer_choice' = choice.move
                           /\ via' = choice.via
                           /\ detected_gestures' = << >>
                           /\ op' = "get_computer_choice"
                           /\ player_move_history' =
                                IF choice.via = "random" THEN player_move_history
                                ELSE << >>
                ELSE /\ op' = "countdown"
                     /\ UNCHANGED << game_state, computer_choice, via, detected_gestures,
                                     player_move_history >>
    /\ UNCHANGED << user_choice, result, score, rounds_played,
                    game_history, ai_mode, ai_difficulty, detection_duration,
                    gesture_history, detected_gesture, use_keyboard, show_help, phase >>

\* self.countdown goes below zero when the menu's key 2 opens the countdown
\* state again with the count of the round before: how far below a run of
\* the model follows it
MaxBelowZero == 1

\* a countdown that leaves the labels of the last window in place
CountdownStateKeepsWindow(random) ==
    /\ game_state = "countdown"
    /\ \E elapsed \in BOOLEAN :
         LET count == IF elapsed THEN countdown - 1 ELSE countdown
         IN  /\ count >= 0 - MaxBelowZero
             /\ countdown' = count
             /\ IF count <= 0
                THEN \E rnd \in random :
                       LET choice == get_computer_choice(rnd)
                       IN  /\ game_state' = "detection"
                           /\ computer_choice' = choice.move
                           /\ via' = choice.via
                           /\ op' = "get_computer_choice"
                           /\ UNCHANGED detected_gestures
                ELSE /\ op' = "countdown"
                     /\ UNCHANGED << game_state, computer_choice, via, detected_gestures >>
    /\ UNCHANGED << user_choice, result, score, rounds_played, player_move_history,
                    game_history, ai_mode, ai_difficulty, detection_duration >>

\* the countdown state of a frame: the count goes down once a second, and at
\* zero the computer's move is chosen and the detection window opens
CountdownState(random) ==
    /\ game_state = "countdown"
    /\ \E elapsed \in BOOLEAN :
         LET count == IF elapsed THEN countdown - 1 ELSE countdown
         IN  /\ count >= 0 - MaxBelowZero
             /\ countdown' = count
             /\ IF count <= 0
                THEN \E rnd \in random :
                       LET choice == get_computer_choice(rnd)
                       IN  /\ game_state' = "detection"
                           /\ computer_choice' = choice.move
                           /\ via' = choice.via
                           /\ detected_gestures' = << >>
                           /\ op' = "get_computer_choice"
                ELSE /\ op' = "countdown"
                     /\ UNCHANGED << game_state, computer_choice, via, detected_gestures >>
    /\ UNCHANGED << user_choice, result, score, rounds_played, player_move_history,
                    game_history, ai_mode, ai_difficulty, detection_duration >>

\* a frame in the countdown state in which no key is pressed
CountdownFrame(random) ==
    /\ ~GameOver
    /\ phase = "frame"
    /\ ~show_help
    /\ CountdownState(random)
    /\ UNCHANGED << gesture_history, detected_gesture, use_keyboard, show_help, phase >>

\* the extended_fingers of a hand held still in a gesture: a fist has no
\* valley, two fingers have 1 and an open hand has 4
SteadyFingers == [ rock |-> 0, scissors |-> 2, paper |-> 5 ]

\* the end of a detection: the player's move (the gesture confirmed at the
\* end of the window) is one of moves, and the round is resolved.  The hand
\* was held still for history_size frames or more, as many as it takes for
\* its label to be confirmed, so that gesture_history holds its finger
\* count only; limit bounds the number of rounds of a run of the model
ResolveRound(moves, limit) ==
    /\ ~GameOver
    /\ phase = "frame"
    /\ ~show_help
    /\ game_state = "detection"
    /\ Len(game_history) < limit
    /\ \E move \in moves :
         /\ user_choice' = move
         /\ determine_winner(move, computer_choice)
         /\ gesture_history' = [ i \in 1..history_size |-> SteadyFingers[move] ]
         /\ detected_gesture' = move
    /\ game_state' = "result"
    /\ UNCHANGED << countdown, computer_choice, detected_gestures, ai_mode,
                    ai_difficulty, detection_duration, use_keyboard, show_help,
                    phase, via >>

\* a frame in the result state: after 3 seconds the next round's countdown
\* starts, unless the match is over
ResultFrame ==
    /\ ~GameOver
    /\ phase = "frame"
    /\ ~show_help
    /\ game_state = "result"
    /\ \E elapsed \in BOOLEAN :
         IF elapsed /\ ~(rounds_played >= max_rounds)
         THEN /\ game_state' = "countdown"
              /\ countdown' = 3
              /\ op' = "next_round"
         ELSE UNCHANGED << game_state, countdown, op >>
    /\ UNCHANGED << computer_choice, user_choice, result, score, rounds_played,
                    detected_gestures, player_move_history, game_history, ai_mode,
                    ai_difficulty, detection_duration, gesture_history,
                    detected_gesture, use_keyboard, show_help, phase, via >>

\* the restart key while a match is on (past the game-over check)
Restart ==
    /\ ~GameOver
    /\ phase = "frame"
    /\ reset_game
    /\ show_help' = FALSE
    /\ UNCHANGED << gesture_history, detected_gesture, phase >>

\* the game-over screen: only 'play again' (and quit) is read there
PlayAgain ==
    /\ GameOver
    /\ phase = "frame"
    /\ reset_game
    /\ UNCHANGED << gesture_history, detected_gesture, show_help, phase >>

-----------------------------------------------------------------------------
(* One pass of the loop of run(), in two steps: the state handling of the  *)
(* frame, then the handling of the key cv2.waitKey returned.  The 'q' key  *)
(* ends run() and is left out.                                             *)

\* self.gesture_confidence_threshold
gesture_confidence_threshold == 3

\* max(gesture_counts, key=gesture_counts.get): the label counted most often,
\* the one met first in the window among equally frequent ones
MostCommonGesture(gestures) ==
    LET first(g) == Min({ i \in 1..Len(gestures) : gestures[i] = g })
    IN  CHOOSE g \in Range(gestures) :
          \A o \in Range(gestures) \ {g} :
             \/ Count(gestures, o) < Count(gestures, g)
             \/ Count(gestures, o) = Count(gestures, g) /\ first(g) < first(o)

\* a detection that takes the most frequent label however rarely it was seen
DetectionStateNoThreshold(frames, window, limit) ==
    /\ game_state = "detection"
    /\ IF use_keyboard
       THEN /\ op' = "draw"
            /\ UNCHANGED << game_state, countdown, computer_choice, user_choice, result,
                            score, rounds_played, detected_gestures,
                            player_move_history, game_history, ai_mode, ai_difficulty,
                            detection_duration, gesture_history, detected_gesture, via >>
       ELSE \E frame \in frames : \E elapsed \in BOOLEAN :
              LET gesture  == get_gesture(frame)
                  gestures == IF gesture.gesture # None
                              THEN Append(detected_gestures, gesture.gesture)
                              ELSE detected_gestures
              IN  /\ Len(gestures) <= window
                  /\ gesture_history' = gesture.history
                  /\ detected_gesture' = gesture.gesture
                  /\ detected_gestures' = gestures
                  /\ IF elapsed /\ gestures # << >>
                     THEN /\ Len(game_history) < limit
                          /\ user_choice' = MostCommonGesture(gestures)
                          /\ determine_winner(MostCommonGesture(gestures), computer_choice)
                          /\ game_state' = "result"
                          /\ UNCHANGED << countdown, computer_choice, ai_mode,
                                          ai_difficulty, detection_duration, via >>
                     ELSE /\ op' = "get_gesture"
                          /\ UNCHANGED << game_state, countdown, computer_choice,
                                          user_choice, result, score, rounds_played,
                                          player_move_history, game_history, ai_mode,
                                          ai_difficulty, detection_duration, via >>

\* a frame of the detection state in gesture mode: get_gesture is called on
\* frame, a label is appended to the window, and if elapsed (the detection
\* time is up) the most frequent label of a non-empty window is the player's
\* move if it was seen gesture_confidence_threshold times, else the window
\* starts again.  The feedback text, its colour and the sounds are display;
\* op names the branch taken
GestureFrame(frame, elapsed, window, limit) ==
    LET gesture  == get_gesture(frame)
        gestures == IF gesture.gesture # None
                    THEN Append(detected_gestures, gesture.gesture)
                    ELSE detected_gestures
    IN  /\ Len(gestures) <= window
        /\ gesture_history' = gesture.history
        /\ detected_gesture' = gesture.gesture
        /\ IF elapsed /\ gestures # << >>
           THEN IF Count(gestures, MostCommonGesture(gestures))
                     >= gesture_confidence_threshold
                THEN /\ Len(game_history) < limit
                     /\ detected_gestures' = gestures
                     /\ user_choice' = MostCommonGesture(gestures)
                     /\ determine_winner(MostCommonGesture(gestures), computer_choice)
                     /\ game_state' = "result"
                     /\ UNCHANGED << countdown, computer_choice, ai_mode,
                                     ai_difficulty, detection_duration, via >>
                ELSE /\ detected_gestures' = << >>
                     /\ op' = "unclear_gesture"
                     /\ UNCHANGED << game_state, countdown, computer_choice,
                                     user_choice, result, score, rounds_played,
                                     player_move_history, game_history,
                                     ai_mode, ai_difficulty,
                                     detection_duration, via >>
           ELSE /\ detected_gestures' = gestures
                /\ op' = "get_gesture"
                /\ UNCHANGED << game_state, countdown, computer_choice,
                                user_choice, result, score, rounds_played,
                                player_move_history, game_history, ai_mode,
                                ai_difficulty, detection_duration, via >>

\* the detection state of a frame: in keyboard mode the screen is only drawn;
\* window bounds the labels of a window and limit the rounds of a run of the
\* model
DetectionState(frames, window, limit) ==
    /\ game_state = "detection"
    /\ IF use_keyboard
       THEN /\ op' = "draw"
            /\ UNCHANGED << game_state, countdown, computer_choice, user_choice, result,
                            score, rounds_played, detected_gestures,
                            player_move_history, game_history, ai_mode, ai_difficulty,
                            detection_duration, gesture_history, detected_gesture, via >>
       ELSE \E frame \in frames : \E elapsed \in BOOLEAN :
              GestureFrame(frame, elapsed, window, limit)

\* a result state that goes on to the next detection without a countdown
ResultStateSkipsCountdown ==
    /\ game_state = "result"
    /\ \E elapsed \in BOOLEAN :
         IF elapsed /\ ~(rounds_played >= max_rounds)
         THEN /\ game_state' = "detection"
              /\ countdown' = 3
              /\ op' = "next_round"
         ELSE /\ op' = "draw"
              /\ UNCHANGED << game_state, countdown >>
    /\ UNCHANGED << computer_choice, user_choice, result, score, rounds_played,
                    detected_gestures, player_move_history, game_history, ai_mode,
                    ai_difficulty, detection_duration, via >>

\* the result state of a frame: after 3 seconds the next round's countdown
\* starts, unless the match is over
ResultState ==
    /\ game_state = "result"
    /\ \E elapsed \in BOOLEAN :
         IF elapsed /\ ~(rounds_played >= max_rounds)
         THEN /\ game_state' = "countdown"
              /\ countdown' = 3
              /\ op' = "next_round"
         ELSE /\ op' = "draw"
              /\ UNCHANGED << game_state, countdown >>
    /\ UNCHANGED << computer_choice, user_choice, result, score, rounds_played,
                    detected_gestures, player_move_history, game_history, ai_mode,
                    ai_difficulty, detection_duration, via >>

\* the menu, AI settings, statistics and help screens are only drawn
DrawScreen ==
    /\ op' = "draw"
    /\ UNCHANGED << game_state, countdown, computer_choice, user_choice, result, score,
                    rounds_played, detected_gestures, player_move_history,
                    game_history, ai_mode, ai_difficulty, detection_duration, via >>

\* the state handling of a frame that passed the game-over check: the chain
\* menu, ai_settings, stats, show_help, countdown, detection, result
StateHandling(random, frames, window, limit) ==
    /\ phase = "frame"
    /\ ~GameOver
    /\ IF game_state \in { "menu", "ai_settings", "stats" } \/ show_help
       THEN DrawScreen /\ UNCHANGED << gesture_history, detected_gesture >>
       ELSE IF game_state = "countdown"
       THEN CountdownState(random) /\ UNCHANGED << gesture_history, detected_gesture >>
       ELSE IF game_state = "detection" THEN DetectionState(frames, window, limit)
       ELSE ResultState /\ UNCHANGED << gesture_history, detected_gesture >>
    /\ phase' = "key"
    /\ UNCHANGED << use_keyboard, show_help >>

\* the handling of key, one of "k", "r", "m", ... or None when cv2.waitKey
\* returned -1: the first branch of the chain that takes the key
KeyHandling(key, limit) ==
    /\ phase = "key"
    /\ phase' = "frame"
    /\ UNCHANGED << gesture_history, detected_gesture >>
    /\ IF key = "k"
       THEN /\ use_keyboard' = ~use_keyboard
            /\ detected_gestures' = IF use_keyboard THEN << >> ELSE detected_gestures
            /\ op' = "toggle_keyboard"
            /\ UNCHANGED << game_state, countdown, computer_choice, user_choice, result,
                            score, rounds_played, player_move_history, game_history,
                            ai_mode, ai_difficulty, detection_duration, show_help, via >>
       ELSE IF key = "r"
       THEN /\ reset_game
            /\ show_help' = FALSE
       ELSE IF key = "m"
       THEN /\ IF game_state # "menu"
               THEN game_state' = "menu" /\ UNCHANGED countdown
               ELSE game_state' = "countdown" /\ countdown' = 3
            /\ op' = "menu"
            /\ UNCHANGED << computer_choice, user_choice, result, score, rounds_played,
                            detected_gestures, player_move_history, game_history,
                            ai_mode, ai_difficulty, detection_duration, use_keyboard,
                            show_help, via >>
       ELSE IF key \in { "h", "4" }
       THEN /\ show_help' = ~show_help
            /\ op' = "help"
            /\ UNCHANGED << game_state, countdown, computer_choice, user_choice, result,
                            score, rounds_played, detected_gestures,
                            player_move_history, game_history, ai_mode, ai_difficulty,
                            detection_duration, use_keyboard, via >>
       ELSE IF key \in { "+", "=", "-", "_" }
       THEN /\ detection_duration' =
                 IF key \in { "+", "=" }
                 THEN (IF detection_duration - 5 > 10 THEN detection_duration - 5 ELSE 10)
                 ELSE (IF detection_duration + 5 < 50 THEN detection_duration + 5 ELSE 50)
            /\ op' = "detection_duration"
            /\ UNCHANGED << game_state, countdown, computer_choice, user_choice, result,
                            score, rounds_played, detected_gestures,
                            player_move_history, game_history, ai_mode, ai_difficulty,
                            use_keyboard, show_help, via >>
       ELSE IF game_state = "detection" /\ use_keyboard
       THEN IF key \in { "r", "p", "s" }
            THEN LET move == IF key = "r" THEN "rock"
                             ELSE IF key = "p" THEN "paper" ELSE "scissors"
                 IN  /\ Len(game_history) < limit
                     /\ user_choice' = move
                     /\ determine_winner(move, computer_choice)
                     /\ game_state' = "result"
                     /\ UNCHANGED << countdown, computer_choice, detected_gestures,
                                     ai_mode, ai_difficulty, detection_duration,
                                     use_keyboard, show_help, via >>
            ELSE /\ op' = "no_key"
                 /\ UNCHANGED << game_state, countdown, computer_choice, user_choice,
                                 result, score, rounds_played, detected_gestures,
                                 player_move_history, game_history, ai_mode,
                                 ai_difficulty, detection_duration, use_keyboard,
                                 show_help, via >>
       ELSE IF show_help /\ key # None
       THEN /\ show_help' = FALSE
            /\ op' = "help"
            /\ UNCHANGED << game_state, countdown, computer_choice, user_choice, result,
                            score, rounds_played, detected_gestures,
                            player_move_history, game_history, ai_mode, ai_difficulty,
                            detection_duration, use_keyboard, via >>
       ELSE IF game_state = "menu" /\ key = "1"
       THEN /\ reset_game
            /\ UNCHANGED show_help
       ELSE IF game_state = "menu" /\ key = "2"
       THEN /\ detection_duration' = 30
            /\ game_state' = "countdown"
            /\ op' = "menu"
            /\ UNCHANGED << countdown, computer_choice, user_choice, result, score,
                            rounds_played, detected_gestures, player_move_history,
                            game_history, ai_mode, ai_difficulty, use_keyboard,
                            show_help, via >>
       ELSE IF game_state = "menu" /\ key = "4"
       THEN /\ show_help' = TRUE
            /\ op' = "help"
            /\ UNCHANGED << game_state, countdown, computer_choice, user_choice, result,
                            score, rounds_played, detected_gestures,
                            player_move_history, game_history, ai_mode, ai_difficulty,
                            detection_duration, use_keyboard, via >>
       ELSE IF (game_state = "menu" /\ key \in { "5", "6" })
                 \/ (game_state \in { "ai_settings", "stats" } /\ key = "b")
       THEN /\ game_state' = IF key = "5" THEN "ai_settings"
                             ELSE IF key = "6" THEN "stats" ELSE "menu"
            /\ op' = "menu"
            /\ UNCHANGED << countdown, computer_choice, user_choice, result, score,
                            rounds_played, detected_gestures, player_move_history,
                            game_history, ai_mode, ai_difficulty, detection_duration,
                            use_keyboard, show_help, via >>
       ELSE IF game_state = "ai_settings" /\ key \in { "1", "2", "3", "4" }
       THEN /\ ai_mode' = IF key = "1" THEN "random"
                          ELSE IF key = "2" THEN "counter"
                          ELSE IF key = "3" THEN "pattern" ELSE "adaptive"
            /\ op' = "ai_mode"
            /\ UNCHANGED << game_state, countdown, computer_choice, user_choice, result,
                            score, rounds_played, detected_gestures,
                            player_move_history, game_history, ai_difficulty,
                            detection_duration, use_keyboard, show_help, via >>
       ELSE IF game_state = "ai_settings" /\ key \in { "+", "=", "-", "_" }
       THEN /\ ai_difficulty' =
                 IF key \in { "+", "=" }
                 THEN (IF ai_difficulty + 10 < 100 THEN ai_difficulty + 10 ELSE 100)
                 ELSE (IF ai_difficulty - 10 > 0 THEN ai_difficulty - 10 ELSE 0)
            /\ op' = "ai_difficulty"
            /\ UNCHANGED << game_state, countdown, computer_choice, user_choice, result,
                            score, rounds_played, detected_gestures,
                            player_move_history, game_history, ai_mode,
                            detection_duration, use_keyboard, show_help, via >>
       ELSE IF game_state = "stats" /\ key = "e"
       THEN /\ op' = "export_to_csv"
            /\ UNCHANGED << game_state, countdown, computer_choice, user_choice, result,
                            score, rounds_played, detected_gestures,
                            player_move_history, game_history, ai_mode, ai_difficulty,
                            detection_duration, use_keyboard, show_help, via >>
       ELSE /\ op' = "no_key"
            /\ UNCHANGED << game_state, countdown, computer_choice, user_choice, result,
                            score, rounds_played, detected_gestures,
                            player_move_history, game_history, ai_mode, ai_difficulty,
                            detection_duration, use_keyboard, show_help, via >>

-----------------------------------------------------------------------------
(* Specifications.                                                         *)

\* In random mode no random.random() draw and no random.choices index is
\* read: one value stands for them
RandomPick(picks) == Random({0}, {0}, {0}, {0}, picks)

\* rounds of a run of Spec
MaxRounds == 3

\* the game as constructed (random mode), every player move, every move of
\* the computer, restarted at any time; a match of max_rounds rounds does
\* not end within MaxRounds
Next ==
    \/ CountdownFrame(RandomPick(Moves))
    \/ ResolveRound(Moves, MaxRounds)
    \/ ResultFrame
    \/ Restart

Spec == Init /\ [][Next]_vars

\* rounds of a run of SpecFifo
MaxFifoRounds == 11

\* the game as constructed over more rounds than the move history holds,
\* match after match: the player shows rock or paper, the computer draws
\* rock, and every match is played to its end
NextFifo ==
    \/ CountdownFrame(RandomPick({"rock"}))
    \/ ResolveRound({"rock", "paper"}, MaxFifoRounds)
    \/ ResultFrame
    \/ PlayAgain

SpecFifo == Init /\ [][NextFifo]_vars

\* rounds of a run of SpecCounter
MaxCounterRounds == 6

\* the game with ai_mode set to counter (key 2 of the AI settings screen,
\* opened from the menu before the first round)
InitCounter == InitWith("counter", 70)

\* counter mode, match after match: every player move; the first draw is
\* below or above ai_difficulty, and random.choice yields rock
NextCounter ==
    \/ CountdownFrame(Random({0, 99}, {0}, {0}, {0}, {"rock"}))
    \/ ResolveRound(Moves, MaxCounterRounds)
    \/ ResultFrame
    \/ PlayAgain

SpecCounter == InitCounter /\ [][NextCounter]_vars

\* rounds of a run of SpecPattern
MaxPatternRounds == 3

\* the game with ai_mode set to pattern (key 3 of the AI settings screen,
\* opened from the menu before the first round)
InitPattern == InitWith("pattern", 70)

\* pattern mode: every player move, every move random.choice can yield, the
\* first draw below or above ai_difficulty
NextPattern ==
    \/ CountdownFrame(Random({0, 99}, {0}, {0}, {0}, Moves))
    \/ ResolveRound(Moves, MaxPatternRounds)
    \/ ResultFrame

SpecPattern == InitPattern /\ [][NextPattern]_vars

\* rounds of a run of SpecDetectors
MaxDetectorMoves == 6

\* pattern mode over matches played one after the other, so that the move
\* history grows past a match: every player move, the first draw below or
\* above ai_difficulty, random.choice yielding rock
NextDetectors ==
    \/ CountdownFrame(Random({0, 99}, {0}, {0}, {0}, {"rock"}))
    \/ ResolveRound(Moves, MaxDetectorMoves)
    \/ ResultFrame
    \/ PlayAgain

SpecDetectors == InitPattern /\ [][NextDetectors]_vars

\* rounds of a run of SpecMatch, and the labels a detection window holds
MaxMatchRounds == 6

MaxMatchWindow == 3

\* the keys pressed in SpecMatch
MatchKeys == { None, "k", "r", "m", "h", "s", "1", "2", "6", "b", "e" }

\* a frame without a contour
NoHand == Frame({"none"}, {0}, {0}, {0})

\* a frame whose convex hull has fewer than 3 points
SmallHull == Frame({"small"}, {0}, {0}, {0})

\* frames of two fingers (1 valley): round and solid, or neither
TwoFingers == Frame({"hand"}, {1}, {50, 90}, {90})

\* matches played frame by frame in gesture and keyboard mode, with the menu
\* and its screens: every frame shows two fingers (get_gesture yields
\* scissors), the move key pressed is scissors, random.choice yields rock
NextMatch ==
    \/ StateHandling(RandomPick({"rock"}), Frame({"hand"}, {1}, {50}, {90}),
                     MaxMatchWindow, MaxMatchRounds)
    \/ \E key \in MatchKeys : KeyHandling(key, MaxMatchRounds)
    \/ PlayAgain

SpecMatch == Init /\ [][NextMatch]_vars

\* rounds of a run of SpecGestures, and the labels a detection window holds
MaxGestureRounds == 2

MaxGestureWindow == 4

\* the keys pressed in SpecGestures
GestureKeys == { None, "k", "r", "p", "s", "m", "h" }

\* rounds played frame by frame in gesture and keyboard mode: the frames
\* show two fingers (get_gesture yields rock or scissors) or no hand,
\* random.choice yields rock
NextGestures ==
    \/ StateHandling(RandomPick({"rock"}), NoHand \cup TwoFingers, MaxGestureWindow,
                     MaxGestureRounds)
    \/ \E key \in GestureKeys : KeyHandling(key, MaxGestureRounds)

SpecGestures == Init /\ [][NextGestures]_vars

\* rounds of a run of SpecKeys, and the labels a detection window holds
MaxKeysRounds == 2

MaxKeysWindow == 3

\* the keys pressed in SpecKeys
KeysPressed == { None, "k", "r", "p", "s", "m", "h", "1", "2", "3", "4", "5", "b" }

\* rounds played frame by frame in gesture and keyboard mode, with the menu
\* and the AI settings screen: every frame shows a hull too small to analyse
\* (get_gesture yields rock), random.choice yields rock
NextKeys ==
    \/ StateHandling(RandomPick({"rock"}), SmallHull, MaxKeysWindow, MaxKeysRounds)
    \/ \E key \in KeysPressed : KeyHandling(key, MaxKeysRounds)

SpecKeys == Init /\ [][NextKeys]_vars

\* rounds of a run of SpecSettings, and the labels a detection window holds
MaxSettingsRounds == 1

MaxSettingsWindow == 3

\* the keys pressed in SpecSettings
SettingsKeys == { None, "m", "h", "5", "b", "+", "=", "-", "_" }

\* a round played frame by frame, with the menu, the AI settings screen and
\* the keys that change a setting by a step
NextSettings ==
    \/ StateHandling(RandomPick({"rock"}), SmallHull, MaxSettingsWindow,
                     MaxSettingsRounds)
    \/ \E key \in SettingsKeys : KeyHandling(key, MaxSettingsRounds)

SpecSettings == Init /\ [][NextSettings]_vars

\* rounds of a run of SpecRounds, and the labels a detection window holds
MaxRoundsPlayed == 4

MaxRoundsWindow == 3

\* the keys pressed in SpecRounds
RoundKeys == { None, "k", "p", "s" }

\* a game at the difficulty it is constructed with, in the counter mode that
\* key 2 of the AI settings screen selects
InitRounds == InitWith("counter", 70)

\* rounds played frame by frame against the counter strategy, by gesture
\* (a fist) or by move key
NextRounds ==
    \/ StateHandling(RandomPick({"rock"}), SmallHull, MaxRoundsWindow,
                     MaxRoundsPlayed)
    \/ \E key \in RoundKeys : KeyHandling(key, MaxRoundsPlayed)

SpecRounds == InitRounds /\ [][NextRounds]_vars

\* a call of get_gesture on the contour of a frame, by the game or by a test
\* of the detector: it writes gesture_history and returns the label
HandFrame(frame) ==
    /\ LET gesture == get_gesture(frame)
       IN  /\ gesture_history' = gesture.history
           /\ detected_gesture' = gesture.gesture
    /\ op' = "get_gesture"
    /\ UNCHANGED << game_state, countdown, computer_choice, user_choice, result,
                    score, rounds_played, detected_gestures, player_move_history,
                    game_history, ai_mode, ai_difficulty, detection_duration,
                    use_keyboard, show_help, phase, via >>

\* the frames of SpecHand: no contour, and hands of 0, 1 and 3 valleys
HandFrames == NoHand \cup Frame({"hand"}, {0, 1, 3}, {50}, {70})

\* the detector alone, fed any sequence of frames
NextHand == \E frame \in HandFrames : HandFrame(frame)

SpecHand == Init /\ [][NextHand]_vars

\* the analyzable frames a run of SpecClassify feeds the detector
MaxClassifyFrames == 4

\* the frames of SpecClassify: hands of 0 to 4 valleys, round or not, of
\* low, middle and high solidity
ClassifyFrames ==
    Frame({"none", "small", "error"}, {0}, {0}, {0})
      \cup Frame({"hand"}, 0..4, {50, 90}, {70, 78, 90})

\* the detector alone, on a few frames of every shape
NextClassify ==
    \E frame \in ClassifyFrames :
       /\ Len(gesture_history) < MaxClassifyFrames
       /\ HandFrame(frame)

SpecClassify == Init /\ [][NextClassify]_vars

\* the largest coordinate of a contour point, the defects of a frame and the
\* frames analyzed in a run of SpecDefects
MaxCoordinate == 2

MaxDefects == 2

MaxDefectFrames == 4

\* the defects of SpecDefects: the far point in the middle of the start and
\* end points of the hull
Defects ==
    [ start : (0..MaxCoordinate) \X (0..MaxCoordinate),
      end   : (0..MaxCoordinate) \X (0..MaxCoordinate),
      far   : { << 1, 1 >> } ]

\* a call of get_gesture on a contour with these convexity defects, of
\* circularity 0.5 and solidity 0.7
DefectFrame(defects) ==
    HandFrame([ contour |-> "hand", valleys |-> Valleys(defects),
                circularity |-> 50, solidity |-> 70 ])

\* the detector alone, on contours of up to MaxDefects defects
NextDefects ==
    /\ Len(gesture_history) < MaxDefectFrames
    /\ \E n \in 0..MaxDefects : \E defects \in [ 1..n -> Defects ] :
          DefectFrame(defects)

SpecDefects == Init /\ [][NextDefects]_vars

\* the labels a detection window of SpecLive holds
MaxLiveWindow == 3

\* a frame of a match nobody interrupts: the state handling of run() on a
\* frame without a hand or with two fingers held up (get_gesture yields
\* scissors), random.choice yielding any move
LiveFrame ==
    StateHandling(RandomPick(Moves), NoHand \cup Frame({"hand"}, {1}, {50}, {90}),
                  MaxLiveWindow, max_rounds)

\* a frame of the countdown or of the result in which the clock is found to
\* have advanced: a second of the countdown or the 3 seconds of the result
\* have passed
ClockAdvances ==
    /\ game_state \in { "countdown", "result" }
    /\ LiveFrame
    /\ countdown' < countdown \/ game_state' # game_state

\* the loop of run() with cv2.waitKey returning -1 in every pass
NextLive ==
    \/ LiveFrame
    \/ KeyHandling(None, max_rounds)

\* the loop of run() never stops (while True) and time.time() keeps
\* advancing
SpecLive ==
    /\ Init
    /\ [][NextLive]_vars
    /\ WF_vars(KeyHandling(None, max_rounds))
    /\ SF_vars(ClockAdvances)

\* rounds of a run of SpecEngine
MaxEngineRounds == 3

\* the game with the two settings of the engine, ai_mode and ai_difficulty,
\* at any of their values
InitEngine == \E mode \in Modes : \E difficulty \in Difficulties : InitWith(mode, difficulty)

\* only the adaptive branch draws a second and a third number and an index
EngineRandom ==
    IF ai_mode = "adaptive"
    THEN Random({0, 99}, Draws, {0, 99}, 0..2, {"rock", "paper"})
    ELSE Random({0, 99}, {0}, {0}, {0}, {"rock", "paper"})

\* every mode, both ends of the difficulty, every player move, every
\* outcome of the draws, and rock or paper from random.choice
NextEngine ==
    \/ CountdownFrame(EngineRandom)
    \/ ResolveRound(Moves, MaxEngineRounds)
    \/ ResultFrame

SpecEngine == InitEngine /\ [][NextEngine]_vars

-----------------------------------------------------------------------------
(* The outcome table the claims are stated with.                           *)

UserWins == { << "rock", "scissors" >>, << "paper", "rock" >>, << "scissors", "paper" >> }

Records == { game_history[i] : i \in 1..Len(game_history) }

\* C1: in every record of game_history the winner is tie iff the two moves
\* are equal, user iff (user move, computer move) is (rock, scissors),
\* (paper, rock) or (scissors, paper), and computer in every other case.
C1_OutcomeTable ==
    \A r \in Records :
        LET pair == << r.user_choice, r.computer_choice >>
        IN  /\ r.user_choice \in Moves /\ r.computer_choice \in Moves
            /\ r.winner = "tie" <=> r.user_choice = r.computer_choice
            /\ r.winner = "user" <=> pair \in UserWins
            /\ r.winner = "computer" <=> (r.user_choice # r.computer_choice /\ pair \notin UserWins)

\* rounds with each outcome have been resolved
C1_Witness ==
    /\ op = "determine_winner"
    /\ { r.winner : r \in Records } = { "tie", "user", "computer" }

\* C2: for distinct moves m1, m2 the round (player m1, computer m2) is won by
\* the player iff the round (player m2, computer m1) is won by the computer,
\* and a round with distinct moves is never a tie.
C2_AntiSymmetric ==
    \A r \in Records : \A q \in Records :
        ( /\ r.user_choice # r.computer_choice
          /\ q.user_choice = r.computer_choice
          /\ q.computer_choice = r.user_choice )
        => /\ r.winner # "tie"
           /\ r.winner = "user" <=> q.winner = "computer"

\* a round and its mirror image have both been resolved
C2_Witness ==
    \E r \in Records : \E q \in Records :
        /\ r.user_choice # r.computer_choice
        /\ q.user_choice = r.computer_choice
        /\ q.computer_choice = r.user_choice

\* C3: every determine_winner call raises rounds_played by exactly 1, raises
\* score.user by 1 on a user win and score.computer by 1 on a computer win,
\* and changes no other counter (none on a tie).
C3_RoundAndScore ==
    [][ op' = "determine_winner" =>
          LET pair == << user_choice', computer_choice >>
              user == IF pair \in UserWins THEN 1 ELSE 0
              comp == IF pair[1] # pair[2] /\ pair \notin UserWins THEN 1 ELSE 0
          IN  /\ rounds_played' = rounds_played + 1
              /\ score'.user = score.user + user
              /\ score'.computer = score.computer + comp
              /\ DOMAIN score' = { "user", "computer" } ]_vars

\* a match in which a win, a loss and a tie have been resolved
C3_Witness ==
    /\ op = "determine_winner"
    /\ rounds_played = 3
    /\ score = [user |-> 1, computer |-> 1]

\* C4: in every record streak_type is the round's winner, and current_streak
\* is the previous record's current_streak + 1 when the previous record has
\* the same winner and 1 otherwise (also for the first record); so it is
\* at least 1.
C4_Streak ==
    \A i \in 1..Len(game_history) :
        LET r == game_history[i]
        IN  /\ r.streak_type = r.winner
            /\ r.current_streak >= 1
            /\ r.current_streak =
                 IF i > 1 /\ game_history[i - 1].winner = r.winner
                 THEN game_history[i - 1].current_streak + 1
                 ELSE 1

\* a streak has been continued and a streak has been broken
C4_Witness ==
    /\ \E i \in 2..Len(game_history) : game_history[i].current_streak = 2
    /\ \E i \in 2..Len(game_history) : game_history[i].winner # game_history[i - 1].winner

\* C5: from an empty history and score 0:0 the rounds rock vs scissors,
\* paper vs rock, scissors vs paper give winner user three times, score
\* 3:0, current_streak 1, 2, 3 and streak_type user.
C5_ThreeWins ==
    ( /\ Len(game_history) = 3
      /\ rounds_played = 3
      /\ << game_history[1].user_choice, game_history[1].computer_choice >> = << "rock", "scissors" >>
      /\ << game_history[2].user_choice, game_history[2].computer_choice >> = << "paper", "rock" >>
      /\ << game_history[3].user_choice, game_history[3].computer_choice >> = << "scissors", "paper" >> )
    => /\ \A i \in 1..3 : /\ game_history[i].winner = "user"
                          /\ game_history[i].streak_type = "user"
                          /\ game_history[i].current_streak = i
                          /\ game_history[i].user_score = i
                          /\ game_history[i].computer_score = 0
       /\ score = [user |-> 3, computer |-> 0]

\* the three rounds have been played
C5_Witness ==
    /\ Len(game_history) = 3
    /\ rounds_played = 3
    /\ << game_history[1].user_choice, game_history[1].computer_choice >> = << "rock", "scissors" >>
    /\ << game_history[2].user_choice, game_history[2].computer_choice >> = << "paper", "rock" >>
    /\ << game_history[3].user_choice, game_history[3].computer_choice >> = << "scissors", "paper" >>
    /\ op = "determine_winner"

\* the player's confirmed moves, oldest first, as game_history records them
ConfirmedMoves == [ i \in 1..Len(game_history) |-> game_history[i].user_choice ]

\* C6: player_move_history holds at most 10 moves and is the player's most
\* recent min(10, n) confirmed moves in the order played: the oldest entry
\* is the one dropped by an 11th.
C6_Fifo ==
    /\ Len(player_move_history) <= 10
    /\ player_move_history = LastN(ConfirmedMoves, 10)

\* an 11th move has pushed out a first move that differs from the second
C6_Witness ==
    /\ Len(game_history) = 11
    /\ Len(player_move_history) = 10
    /\ game_history[1].user_choice # game_history[2].user_choice
    /\ op = "determine_winner"

\* C7: reset_game leaves player_move_history (and every field other than
\* score, rounds_played, game_state, countdown and detected_gestures)
\* unchanged, and sets those five to 0:0, 0, countdown, 3 and empty.
C7_ResetKeepsMoves ==
    [][ op' = "reset_game" =>
          /\ player_move_history' = player_move_history
          /\ UNCHANGED << game_history, ai_mode, ai_difficulty, computer_choice,
                          user_choice, result, detection_duration >>
          /\ score' = [user |-> 0, computer |-> 0]
          /\ rounds_played' = 0
          /\ game_state' = "countdown"
          /\ countdown' = 3
          /\ detected_gestures' = << >> ]_vars

\* a match has been reset after rounds were played, and the moves are still
\* there
C7_Witness ==
    /\ op = "reset_game"
    /\ rounds_played = 0
    /\ Len(player_move_history) = 3

\* the move that beats a move, as the game's rules have it
Beats == [ m \in Moves |-> CASE m = "rock" -> "paper"
                             [] m = "paper" -> "scissors"
                             [] m = "scissors" -> "rock" ]

\* the moves that do not occur among the last 5 entries of the history
Absent == Moves \ Range(LastN(player_move_history, 5))

FirstAbsent ==
    IF "rock" \in Absent THEN "rock"
    ELSE IF "paper" \in Absent THEN "paper"
    ELSE "scissors"

\* C8 as stated: when the counter strategy answers on a history of at least
\* 3 entries with a move absent from the last 5, it returns the move that
\* beats an absent move.
C8_AbsentFromThree ==
    ( /\ op = "get_computer_choice"
      /\ via = "counter"
      /\ Len(player_move_history) >= 3
      /\ Absent # {} )
    => \E m \in Absent : computer_choice = Beats[m]

\* C8 amended: when the counter strategy answers on a history of at least 5
\* entries with a move absent from the last 5, it returns the move that
\* beats the absent move, the first in the order rock, paper, scissors when
\* two are absent.
C8_AbsentFromFive ==
    ( /\ op = "get_computer_choice"
      /\ via = "counter"
      /\ Len(player_move_history) >= 5
      /\ Absent # {} )
    => computer_choice = Beats[FirstAbsent]

\* the counter strategy has answered a history of 5 moves without scissors
C8_Witness ==
    /\ op = "get_computer_choice"
    /\ via = "counter"
    /\ Len(player_move_history) = 5
    /\ Absent = { "scissors" }
    /\ computer_choice = "rock"

\* C9: when pattern_based_choice answers the history [rock, rock, rock],
\* whatever game_history holds, the prediction it selects is rock with a
\* confidence of at least 0.7, and the move returned is paper.
C9_RockRockRock ==
    ( /\ op = "get_computer_choice"
      /\ via = "pattern"
      /\ player_move_history = << "rock", "rock", "rock" >> )
    => /\ computer_choice = "paper"
       /\ \A pick \in Moves :
            LET selected == BestPrediction(Predictions(player_move_history, game_history, pick))
            IN  /\ selected.move = "rock"
                /\ DLeq(Literal[70], selected.confidence)

\* pattern mode has answered [rock, rock, rock] after a round the computer
\* won, where a second prediction competes
C9_Witness ==
    /\ op = "get_computer_choice"
    /\ via = "pattern"
    /\ player_move_history = << "rock", "rock", "rock" >>
    /\ Last(game_history).winner = "computer"

\* C10: whatever the mode, the difficulty, the histories and the random
\* draws, the move get_computer_choice returns is rock, paper or scissors.
C10_AlwaysAMove ==
    /\ op = "get_computer_choice" => computer_choice \in Moves
    /\ game_state = "detection" => computer_choice \in Moves
    /\ \A r \in Records : r.computer_choice \in Moves

\* the adaptive engine has answered on a winning streak with the double
\* counter of the player's last move
C10_Witness ==
    /\ op = "get_computer_choice"
    /\ ai_mode = "adaptive"
    /\ via = "adaptive_anticipate"
    /\ computer_choice \in Moves

\* every outcome of the random module in one get_computer_choice call
AllRandom == Random({0, 99}, Draws, {0, 99}, 0..2, Moves)

\* C11: with fewer than 3 entries in player_move_history, or in random mode,
\* get_computer_choice returns what random.choice(self.choices) yields,
\* whatever the other draws and the histories are: the possible results are
\* rock, paper and scissors.
C11_PureRandom ==
    (Len(player_move_history) < 3 \/ ai_mode = "random")
    => /\ \A rnd \in AllRandom : get_computer_choice(rnd) = Choice(rnd.pick, "random")
       /\ { get_computer_choice(rnd).move : rnd \in AllRandom } = Moves

\* the engine has answered in random mode with 3 moves in the history, which
\* hold a repeat that pattern mode would act on
C11_Witness ==
    /\ op = "get_computer_choice"
    /\ ai_mode = "random"
    /\ player_move_history = << "rock", "rock", "rock" >>
    /\ via = "random"

\* the weight of a move as the claim gives it, in tenths: 10 + i for every
\* index i (0 the oldest) the move is at, and 20 more when the move occurs
\* at least twice in the last 3 entries
ClaimedWeight(move) ==
    LET h == player_move_history
        RECURSIVE Sum(_)
        Sum(k) == IF k = 0 THEN 0
                  ELSE Sum(k - 1) + (IF h[k] = move THEN 10 + (k - 1) ELSE 0)
        recent == { k \in 1..Len(h) : k > Len(h) - 3 /\ h[k] = move }
    IN  Sum(Len(h)) + (IF Cardinality(recent) >= 2 THEN 20 ELSE 0)

FiveDetectors ==
    LET h == player_move_history
        n == Len(h)
        repeat ==
            IF n >= 3 /\ h[n] = h[n - 1] /\ h[n] = h[n - 2]
            THEN { << h[n], 35280 + 5040 * MinInt(3, RepeatPatterns(h)) >> }
            ELSE {}
        alternation ==
            IF n >= 4 /\ h[n - 3] = h[n - 1] /\ h[n - 2] = h[n]
            THEN { << h[n - 3], 40320 >> }
            ELSE {}
        cycle ==
            IF n >= 6 /\ \A k \in 0..2 : h[n - k] = h[n - k - 3]
            THEN { << h[n - 5], 42840 >> }
            ELSE {}
        followers(len) ==
            { h[p] : p \in { q \in (len + 1)..n :
                               \A k \in 1..len : h[q - k] = h[n + 1 - k] } }
        followed(len, m) ==
            Cardinality({ q \in (len + 1)..n :
                            /\ h[q] = m
                            /\ \A k \in 1..len : h[q - k] = h[n + 1 - k] })
        total(len) == followed(len, "rock") + followed(len, "paper")
                        + followed(len, "scissors")
        follower ==
            { << m, MinInt(45360, 30240 + (12600 * followed(len, m) * len) \div total(len)) >> :
                << len, m >> \in
                   { x \in (2..4) \X Moves :
                       /\ x[1] < n - 1
                       /\ followers(x[1]) # {}
                       /\ x[2] = MostCommonFollower(h, x[1]) } }
        post_loss ==
            IF Len(game_history) >= 2 /\ Last(game_history).winner = "computer"
            THEN { << Beats[Last(game_history).computer_choice], 32760 >> }
            ELSE {}
    IN  IF n < 3 THEN {}
        ELSE repeat \cup alternation \cup cycle \cup follower \cup post_loss

\* the detector the claims leave out: with all three moves in the last 5 of at
\* least 5 entries, the first of rock, paper, scissors that is neither of the
\* last two moves, confidence 0.6
MoveCycling ==
    LET h == player_move_history
        n == Len(h)
    IN  IF n >= 5 /\ Absent = {}
        THEN { << CHOOSE m \in Moves :
                    /\ m \notin { h[n], h[n - 1] }
                    /\ \A o \in Moves \ { h[n], h[n - 1] } :
                         \E i, j \in 1..3 : choices[i] = m /\ choices[j] = o /\ i <= j,
                  30240 >> }
        ELSE {}

\* the computer's move beats a prediction of P of the highest confidence in P
BeatsBestOf(P) ==
    \E p \in P :
      /\ \A q \in P : q[2] <= p[2]
      /\ computer_choice = Beats[p[1]]

\* C13: when pattern mode answers and a detector has made a prediction, the
\* returned move beats a prediction of the highest confidence among those
\* made, and whenever one of the five listed detectors has fired, a
\* prediction of the highest confidence among those five's.
C13_BeatsBestPrediction ==
    (op = "get_computer_choice" /\ via = "pattern")
    => /\ FiveDetectors \cup MoveCycling # {} => BeatsBestOf(FiveDetectors \cup MoveCycling)
       /\ FiveDetectors # {} => BeatsBestOf(FiveDetectors)

\* pattern mode has answered a history on which the repeat detector
\* (scissors, 0.7) and the post-loss detector (paper, 0.65) disagree
C13_Witness ==
    /\ op = "get_computer_choice"
    /\ via = "pattern"
    /\ player_move_history = << "scissors", "scissors", "scissors" >>
    /\ FiveDetectors = { << "scissors", 35280 >>, << "paper", 32760 >> }
    /\ computer_choice = "rock"

\* C14 as stated: when none of the five listed detectors fires, pattern mode
\* returns what counter mode returns for the same history.
C14_FiveDetectorsFallBack ==
    (op = "get_computer_choice" /\ via = "pattern" /\ FiveDetectors = {})
    => computer_choice = counter_strategy_choice(player_move_history, "rock")

\* C14: when none of the five listed detectors and not the move-cycling
\* detector either fires, pattern mode returns what counter mode returns for
\* the same history.
C14_NoDetectorFallBack ==
    (op = "get_computer_choice" /\ via = "pattern"
       /\ FiveDetectors = {} /\ MoveCycling = {})
    => computer_choice = counter_strategy_choice(player_move_history, "rock")

\* pattern mode has answered a history of 4 moves that no detector fires on
C14_Witness ==
    /\ op = "get_computer_choice"
    /\ via = "pattern"
    /\ Len(player_move_history) = 4
    /\ FiveDetectors = {}
    /\ MoveCycling = {}
    /\ computer_choice = counter_strategy_choice(player_move_history, "rock")

\* the last 2 rounds played both went to who
WonLastTwo(who) ==
    /\ Len(game_history) >= 2
    /\ \A i \in 1..2 : LastN(game_history, 2)[i].winner = who

\* C15: when adaptive mode answers by strategy, a computer that lost the last
\* 2 rounds answers by pattern mode or by a random draw only, and the
\* weighted mix of pattern, counter and random answers only when the computer
\* has neither won nor lost the last 2 rounds.
C15_StreakOfTwo ==
    ( /\ op = "get_computer_choice"
      /\ ai_mode = "adaptive"
      /\ via # "random" )
    => /\ WonLastTwo("user") => via \in { "adaptive_loss_pattern", "adaptive_loss_random" }
       /\ via \in { "adaptive_mix_pattern", "adaptive_mix_counter", "adaptive_mix_random" }
            => ~WonLastTwo("computer") /\ ~WonLastTwo("user")

\* C16: the step in which get_computer_choice (with the pattern and counter
\* strategies it calls) chooses the computer's move leaves
\* player_move_history, game_history, score, rounds_played, ai_mode and
\* ai_difficulty as they were, in every mode.
C16_NoSideEffects ==
    [][ op' = "get_computer_choice"
        => UNCHANGED << player_move_history, game_history, score, rounds_played,
                        ai_mode, ai_difficulty >> ]_vars

\* the counter strategy has answered inside adaptive mode, on 3 moves
C16_Witness ==
    /\ op = "get_computer_choice"
    /\ via = "adaptive_mix_counter"
    /\ Len(player_move_history) = 3
    /\ Len(game_history) = 3

\* C17: rounds_played never exceeds max_rounds, and from a state with
\* rounds_played = max_rounds every step of a frame or a key either is
\* reset_game or leaves score, game_history, rounds_played and
\* player_move_history as they are.
C17_MatchOverTerminal ==
    /\ [](rounds_played <= max_rounds)
    /\ [][ rounds_played = max_rounds
           => \/ op' = "reset_game" /\ rounds_played' = 0
              \/ UNCHANGED << score, game_history, rounds_played, player_move_history >> ]_vars

\* a finished match was left for the menu and the menu for the countdown
\* state, in keyboard mode
C17_Witness ==
    /\ rounds_played = max_rounds
    /\ game_state = "countdown"
    /\ op = "menu"
    /\ use_keyboard

\* C18: a step adds a round to game_history (determine_winner ran) only from
\* the detection state into the result state, and either (a) in the state
\* handling of a frame in gesture mode, the player's move being a label that
\* is in the window at least gesture_confidence_threshold times and as often
\* as any other label, or (b) in the key handling in keyboard mode, the
\* player's move being the move of the key; and the detection state is left
\* for the result state only by such a step.
C18_ResolvedOnlyBy ==
    [][ /\ Len(game_history') # Len(game_history)
           => /\ game_state = "detection"
              /\ game_state' = "result"
              /\ Len(game_history') = Len(game_history) + 1
              /\ Last(game_history').user_choice = user_choice'
              /\ Last(game_history').computer_choice = computer_choice
              /\ \/ /\ phase = "frame"
                    /\ ~use_keyboard
                    /\ ~show_help
                    /\ \/ detected_gestures' = detected_gestures
                       \/ \E label \in Moves :
                            detected_gestures' = Append(detected_gestures, label)
                    /\ Count(detected_gestures', user_choice')
                         >= gesture_confidence_threshold
                    /\ \A label \in Moves :
                         Count(detected_gestures', label)
                           <= Count(detected_gestures', user_choice')
                 \/ /\ phase = "key"
                    /\ use_keyboard
                    /\ user_choice' \in Moves
                    /\ \E key \in { "r", "p", "s" } : KeyHandling(key, MaxGestureRounds)
        /\ (game_state = "detection" /\ game_state' = "result")
           => Len(game_history') = Len(game_history) + 1 ]_vars

\* a round was resolved by a window in which rock was seen 3 times and
\* scissors once
C18_Witness ==
    /\ op = "determine_winner"
    /\ phase = "key"
    /\ ~use_keyboard
    /\ detected_gestures = << "rock", "scissors", "rock", "rock" >>
    /\ user_choice = "rock"
    /\ game_state = "result"

\* the move a move key stands for on the keyboard-mode screen
KeyMove == [ r |-> "rock", p |-> "paper", s |-> "scissors" ]

\* C19: in keyboard mode in the detection state, the handling of each of the
\* keys r, p and s resolves the round with the player's move rock, paper,
\* scissors and the computer's move chosen at the start of the round.
C19_MoveKeys ==
    [][ \A key \in { "r", "p", "s" } :
          ( /\ game_state = "detection"
            /\ use_keyboard
            /\ KeyHandling(key, MaxKeysRounds) )
          => /\ user_choice' = KeyMove[key]
             /\ game_state' = "result"
             /\ Len(game_history') = Len(game_history) + 1
             /\ Last(game_history').user_choice = KeyMove[key]
             /\ Last(game_history').computer_choice = computer_choice ]_vars

\* the mode a key stands for on the AI settings screen
KeyMode == [ i \in { "1", "2", "3", "4" } |->
               IF i = "1" THEN "random" ELSE IF i = "2" THEN "counter"
               ELSE IF i = "3" THEN "pattern" ELSE "adaptive" ]

\* C20: in the ai_settings state (the help screen not asked for), the
\* handling of each of the keys 1, 2, 3 and 4 sets ai_mode to random, counter,
\* pattern, adaptive.
C20_ModeKeys ==
    [][ \A key \in { "1", "2", "3", "4" } :
          ( /\ game_state = "ai_settings"
            /\ ~show_help
            /\ KeyHandling(key, MaxKeysRounds) )
          => ai_mode' = KeyMode[key] ]_vars

\* C21: in the ai_settings state (the help screen not asked for), the
\* handling of key + raises ai_difficulty by 0.1, to 1.0 at most, the
\* handling of key - lowers it by 0.1, to 0.0 at least, and ai_difficulty is
\* within [0, 1] after every step.
C21_DifficultyKeys ==
    [][ /\ ai_difficulty' \in 0..100
        /\ ( /\ game_state = "ai_settings"
             /\ ~show_help
             /\ KeyHandling("+", MaxSettingsRounds) )
           => ai_difficulty' = MinInt(100, ai_difficulty + 10)
        /\ ( /\ game_state = "ai_settings"
             /\ ~show_help
             /\ KeyHandling("-", MaxSettingsRounds) )
           => ai_difficulty' = 0 - MinInt(0, 10 - ai_difficulty) ]_vars

\* C22: the computer's move of a round is chosen at round start.  A step
\* that resolves a round is taken in detection, leaves detection, records
\* the computer_choice it found, and appends the player's move to
\* player_move_history; get_computer_choice is called in the step that goes
\* from countdown to detection, on the player_move_history of the rounds
\* resolved before, with an empty detection window, and detection is
\* entered by no other step: so a choice is used for one round at most.
C22_ChosenAtRoundStart ==
    [][ /\ Len(game_history') > Len(game_history)
           => /\ game_state = "detection"
              /\ game_state' = "result"
              /\ game_history' = Append(game_history, Last(game_history'))
              /\ Last(game_history').computer_choice = computer_choice
              /\ computer_choice' = computer_choice
              /\ player_move_history'
                   = DequeAppend(player_move_history,
                                 Last(game_history').user_choice, history_maxlen)
        /\ player_move_history' # player_move_history
           => Len(game_history') > Len(game_history)
        /\ (game_state' = "detection" /\ game_state # "detection")
           <=> (op' = "get_computer_choice" /\ phase = "frame")
        /\ (op' = "get_computer_choice" /\ phase = "frame")
           => /\ game_state = "countdown"
              /\ detected_gestures' = << >>
              /\ user_choice' = user_choice
              /\ player_move_history' = player_move_history
              /\ game_history' = game_history
              /\ \E rnd \in RandomPick({"rock"}) :
                    computer_choice' = get_computer_choice(rnd).move
        /\ computer_choice' # computer_choice
           => op' = "get_computer_choice" ]_vars

\* the counter strategy answered the three rocks of the rounds before
C22_Witness ==
    /\ game_state = "result"
    /\ Len(game_history) = 4
    /\ player_move_history = << "rock", "rock", "rock", "scissors" >>
    /\ game_history[4].computer_choice = "paper"
    /\ via = "counter"

\* the detection window once the label of frame, if it has one, is added
WindowWith(frame) ==
    IF get_gesture(frame).gesture # None
    THEN Append(detected_gestures, get_gesture(frame).gesture)
    ELSE detected_gestures

\* no label of the window has reached the confidence threshold
NoLabelConfirmed(gestures) ==
    \A g \in Moves : Count(gestures, g) < gesture_confidence_threshold

\* the restart of a detection window: the list of the window is emptied,
\* 'Unclear gesture' and the error sound are raised, the game stays in
\* detection with no round resolved, and gesture_history keeps the counts
\* get_gesture left in it
WindowRestarted(frame) ==
    /\ detected_gestures' = << >>
    /\ op' = "unclear_gesture"
    /\ game_state' = "detection"
    /\ game_history' = game_history
    /\ rounds_played' = rounds_played
    /\ score' = score
    /\ player_move_history' = player_move_history
    /\ gesture_history' = get_gesture(frame).history

\* C23: a frame of the detection state whose window time is up, with no
\* label at the confidence threshold, restarts the window.
C23_WindowRestarts ==
    [][ \A frame \in NoHand \cup TwoFingers :
          ( /\ game_state = "detection"
            /\ GestureFrame(frame, TRUE, MaxGestureWindow, MaxGestureRounds)
            /\ NoLabelConfirmed(WindowWith(frame)) )
          => WindowRestarted(frame) ]_vars

\* the same for the windows that hold a label or more: these do restart
C23_SeenWindowRestarts ==
    [][ \A frame \in NoHand \cup TwoFingers :
          ( /\ game_state = "detection"
            /\ GestureFrame(frame, TRUE, MaxGestureWindow, MaxGestureRounds)
            /\ WindowWith(frame) # << >>
            /\ NoLabelConfirmed(WindowWith(frame)) )
          => WindowRestarted(frame) /\ gesture_history' # << >> ]_vars

\* C24: whenever the game enters the detection state, gesture_history is
\* empty.
C24_HistoryClearedAtWindowStart ==
    [][ (game_state # "detection" /\ game_state' = "detection")
        => gesture_history' = << >> ]_vars

\* C25: get_gesture on no contour, or on a contour whose convex hull has
\* fewer than 3 points, returns None and leaves gesture_history as it was.
C25_DegenerateGivesNone ==
    [][ \A frame \in ClassifyFrames :
          (frame.contour \in { "none", "small" } /\ HandFrame(frame))
          => /\ detected_gesture' = None
             /\ gesture_history' = gesture_history ]_vars

\* the ordered rule of C26 on the smoothed count, the circularity and the
\* solidity of the frame
ClaimedLabel(smoothedCount, frame) ==
    IF smoothedCount <= 1 \/ (frame.circularity > 70 /\ frame.solidity > 80)
    THEN "rock"
    ELSE IF smoothedCount = 2 THEN "scissors"
    ELSE IF smoothedCount >= 4 \/ (smoothedCount = 3 /\ frame.solidity < 75)
    THEN "paper"
    ELSE "rock"

\* C26: the label get_gesture returns for an analyzable frame is the one the
\* ordered rule gives for the smoothed count (the most frequent count of
\* gesture_history after the push), the circularity and the solidity.
C26_LabelBySmoothedCount ==
    [][ \A frame \in ClassifyFrames :
          (frame.contour = "hand" /\ HandFrame(frame))
          => detected_gesture'
               = ClaimedLabel(MostCommonCount(gesture_history'), frame) ]_vars

\* a round and solid shape
RoundAndSolid(frame) == frame.circularity > 70 /\ frame.solidity > 80

\* C27 as stated: 0 valleys and a round, solid shape give rock, 1 valley and
\* circularity < 0.7 give scissors, 3 valleys or more give paper, whatever
\* gesture_history holds.
C27_ShapeGivesLabel ==
    [][ \A frame \in ClassifyFrames :
          (frame.contour = "hand" /\ HandFrame(frame))
          => /\ (frame.valleys = 0 /\ RoundAndSolid(frame))
                => detected_gesture' = "rock"
             /\ (frame.valleys = 1 /\ frame.circularity < 70)
                => detected_gesture' = "scissors"
             /\ frame.valleys >= 3 => detected_gesture' = "paper" ]_vars

\* C27, amended: 0 valleys and a round, solid shape give rock whatever
\* gesture_history holds; on an empty gesture_history, 1 valley and
\* circularity < 0.7 give scissors, and 3 valleys or more give paper unless
\* the shape is round and solid.
C27_ShapeGivesLabelOnEmptyHistory ==
    [][ \A frame \in ClassifyFrames :
          (frame.contour = "hand" /\ HandFrame(frame))
          => /\ (frame.valleys = 0 /\ RoundAndSolid(frame))
                => detected_gesture' = "rock"
             /\ (gesture_history = << >> /\ frame.valleys = 1
                   /\ frame.circularity < 70)
                => detected_gesture' = "scissors"
             /\ (gesture_history = << >> /\ frame.valleys >= 3
                   /\ ~RoundAndSolid(frame))
                => detected_gesture' = "paper" ]_vars

\* a round, solid fist seen after two hands of four fingers is a rock, though
\* the smoothed count is 4
C27_Witness ==
    /\ gesture_history = << 4, 4, 0 >>
    /\ MostCommonCount(gesture_history) = 4
    /\ detected_gesture = "rock"

\* the most frequent value of a history and, among the values tied for most
\* frequent, the one whose first occurrence is the oldest
OldestMostFrequent(history) ==
    LET first(v) == Min({ i \in 1..Len(history) : history[i] = v })
    IN  CHOOSE v \in Range(history) :
          \A o \in Range(history) \ {v} :
             \/ Count(history, o) < Count(history, v)
             \/ Count(history, o) = Count(history, v) /\ first(v) < first(o)

\* the frame of HandFrames whose count is the newest of gesture_history
NewestFrame ==
    CHOOSE frame \in HandFrames :
       frame.contour = "hand" /\ ExtendedFingers(frame) = Last(gesture_history)

\* C28: the count an analyzable frame is classified by is the most frequent
\* value of gesture_history after the push of the frame's count, the one
\* first seen earliest among the values tied for most frequent.  (A label
\* other than None is the label of the frame whose count was pushed last.)
C28_SmoothedIsOldestMostFrequent ==
    gesture_history # << >>
    => /\ MostCommonCount(gesture_history) = OldestMostFrequent(gesture_history)
       /\ detected_gesture # None
          => detected_gesture
               = Classify(OldestMostFrequent(gesture_history), NewestFrame)

\* 4 and 2 are tied; 4 was seen first and the hand is taken for paper
C28_Witness ==
    /\ gesture_history = << 4, 2, 2, 4 >>
    /\ detected_gesture = "paper"

\* C29: the vote is stable under repetition: when the smoothed count of
\* gesture_history is v and a frame whose count is v is analyzed, the
\* smoothed count after the push is v again, the history full or not.
C29_VoteStableUnderRepetition ==
    [][ \A frame \in HandFrames :
          ( /\ frame.contour = "hand"
            /\ gesture_history # << >>
            /\ ExtendedFingers(frame) = MostCommonCount(gesture_history)
            /\ HandFrame(frame) )
          => MostCommonCount(gesture_history') = MostCommonCount(gesture_history) ]_vars

\* C30: gesture_history never holds more than history_size counts; a frame
\* that is analyzed appends its count and, beyond history_size, the oldest
\* count is dropped (the history is the last history_size counts of the one
\* before with the new count added), and a frame without a contour leaves
\* it as it was.
C30_HistoryIsLastTen ==
    [][ /\ Len(gesture_history') <= history_size
        /\ \A frame \in HandFrames :
             HandFrame(frame)
             => gesture_history'
                  = IF frame.contour = "hand"
                    THEN LastN(Append(gesture_history, ExtendedFingers(frame)),
                               history_size)
                    ELSE gesture_history ]_vars

\* a full history, after a frame of three valleys (four fingers)
C30_Witness ==
    /\ gesture_history = << 0, 0, 0, 0, 0, 0, 0, 0, 2, 4 >>
    /\ detected_gesture = "rock"

\* the valleys of C31: the defects with b * c # 0 whose angle at the far
\* point is 90 degrees or less, that is b^2 + c^2 >= a^2
ClaimedValleys(defects) ==
    Cardinality({ i \in 1..Len(defects) :
                    LET a2 == Dist2(defects[i].start, defects[i].end)
                        b2 == Dist2(defects[i].start, defects[i].far)
                        c2 == Dist2(defects[i].end, defects[i].far)
                    IN  b2 * c2 # 0 /\ b2 + c2 >= a2 })

C32_MenuCancelsWindow ==
    [][ /\ (game_state = "detection" /\ KeyHandling("m", MaxMatchRounds))
           => /\ game_state' = "menu"
              /\ UNCHANGED << player_move_history, game_history, score,
                              rounds_played >>
        /\ game_state # "detection"
           => /\ UNCHANGED << player_move_history, game_history >>
              /\ detected_gestures' \in { detected_gestures, << >> }
        /\ (game_state # "detection" /\ game_state' = "detection")
           => detected_gestures' = << >> ]_vars

\* the menu was called over a window that holds labels
C32_Witness ==
    /\ game_state = "menu"
    /\ op = "menu"
    /\ detected_gestures # << >>
    /\ ~use_keyboard

\* C33: game_history is append-only.  A step either leaves game_history as
\* it was, or it resolves a round and adds one record at the end; the
\* records already there keep their places and their fields.
C33_HistoryAppendOnly ==
    [][ \/ game_history' = game_history
        \/ /\ op' = "determine_winner"
           /\ Len(game_history') = Len(game_history) + 1
           /\ SubSeq(game_history', 1, Len(game_history)) = game_history ]_vars

\* the first round of a second match
C33_Witness ==
    /\ Len(game_history) = max_rounds + 1
    /\ Last(game_history).round_number = 1
    /\ rounds_played = 1

\* C34: player_move_history holds the user_choice of the last
\* min(history_maxlen, Len(game_history)) records of game_history, in their
\* order, whatever the number of matches and resets.
C34_HistoriesAgree ==
    /\ Len(player_move_history) = MinInt(history_maxlen, Len(game_history))
    /\ \A i \in 1..Len(player_move_history) :
          player_move_history[i]
            = game_history[Len(game_history) - Len(player_move_history) + i].user_choice

\* the eleventh round, in the third match: the first move has left the deque
C34_Witness ==
    /\ Len(game_history) = history_maxlen + 1
    /\ rounds_played = 1
    /\ game_history[1].user_choice = "rock"
    /\ Len(player_move_history) = history_maxlen
    /\ \A i \in 1..history_maxlen : player_move_history[i] = "paper"

\* the records of game_history from place from to place to that winner won
WonBetween(winner, from, to) ==
    Cardinality({ j \in from..to : game_history[j].winner = winner })

\* C35: the score counts the wins of the current match.  The two scores add
\* up to rounds_played at most, each is the number of records won by its
\* side among the last rounds_played records of game_history, and the
\* user_score and computer_score of a record are the wins of the two sides
\* in its match up to and including its round.
C35_ScoreCountsWins ==
    LET n == Len(game_history)
    IN  /\ score.user + score.computer <= rounds_played
        /\ rounds_played <= n
        /\ score.user = WonBetween("user", n - rounds_played + 1, n)
        /\ score.computer = WonBetween("computer", n - rounds_played + 1, n)
        /\ \A i \in 1..n :
              LET first == i - game_history[i].round_number + 1
              IN  /\ first >= 1
                  /\ game_history[i].user_score = WonBetween("user", first, i)
                  /\ game_history[i].computer_score
                       = WonBetween("computer", first, i)

\* a match restarted after a round lost, then a round won and a tie
C35_Witness ==
    /\ Len(game_history) = 3
    /\ rounds_played = 2
    /\ game_history[1].winner = "computer"
    /\ game_history[2].winner = "user"
    /\ game_history[3].winner = "tie"
    /\ score = [ user |-> 1, computer |-> 0 ]

\* C36: the ai_mode and ai_difficulty of a record are those the computer's
\* move of its round was chosen with.  No step taken in the detection state
\* changes them, the detection state is entered only by the step that calls
\* get_computer_choice, and the step that resolves a round is taken in the
\* detection state and records the two settings as they are.
C36_SettingsOfTheChoice ==
    [][ /\ game_state = "detection"
           => UNCHANGED << ai_mode, ai_difficulty >>
        /\ (game_state # "detection" /\ game_state' = "detection")
           => /\ op' = "get_computer_choice"
              /\ UNCHANGED << ai_mode, ai_difficulty >>
        /\ Len(game_history') > Len(game_history)
           => /\ game_state = "detection"
              /\ Last(game_history').ai_mode = ai_mode
              /\ Last(game_history').ai_difficulty = ai_difficulty ]_vars

\* the mode was changed on the AI settings screen between two rounds
C36_Witness ==
    /\ Len(game_history) = 2
    /\ game_history[1].ai_mode = "random"
    /\ game_history[2].ai_mode = "counter"
    /\ ai_mode = "counter"

\* C37: get_winning_move_against agrees with the outcome rule and is a
\* 3-cycle.  For every move m, its answer differs from m, is resolved as a
\* win of the computer against m, and the answer to the answer to the answer
\* is m; and every round recorded in which the computer played the answer to
\* the player's move was won by the computer.
C37_WinningMoveCycle ==
    /\ \A m \in Moves : \A pick \in Moves :
          LET once   == get_winning_move_against(m, pick)
              twice  == get_winning_move_against(once, pick)
              thrice == get_winning_move_against(twice, pick)
          IN  /\ once \in Moves \ {m}
              /\ Winner(m, once) = "computer"
              /\ thrice = m
    /\ \A i \in 1..Len(game_history) :
          game_history[i].computer_choice
            = get_winning_move_against(game_history[i].user_choice, "rock")
          <=> game_history[i].winner = "computer"

\* the three answers were played, each against the move it beats
C37_Witness ==
    /\ Len(game_history) = 3
    /\ \A i \in 1..3 : game_history[i].winner = "computer"
    /\ { game_history[i].user_choice : i \in 1..3 } = Moves

\* what the random module can yield in a call of get_computer_choice whose
\* first draw does not exceed ai_difficulty (the counter and pattern modes
\* draw no second or third number and no index)
DrawsWithin == Random({0, ai_difficulty}, {0}, {0}, {0}, Moves)

\* C38: the counter and pattern strategies are deterministic.  On a
\* player_move_history of 3 moves or more, counter_strategy_choice gives the
\* same move whatever random.choice yields; pattern_based_choice gives the
\* same move whatever random.choice yields and whatever game_history holds
\* before its last record; and in counter and pattern mode
\* get_computer_choice gives that move for every outcome of the draws in
\* which the first does not exceed ai_difficulty.
C38_StrategiesDeterministic ==
    Len(player_move_history) >= 3
    => /\ \A pick \in Moves :
             counter_strategy_choice(player_move_history, pick)
               = counter_strategy_choice(player_move_history, "rock")
       /\ \A pick \in Moves :
             pattern_based_choice(player_move_history,
                                  << Last(game_history), Last(game_history) >>, pick)
               = pattern_based_choice(player_move_history, game_history, "rock")
       /\ \A rnd \in DrawsWithin :
             /\ ai_mode = "pattern"
                => get_computer_choice(rnd).move
                     = pattern_based_choice(player_move_history, game_history, "rock")
             /\ ai_mode = "counter"
                => get_computer_choice(rnd).move
                     = counter_strategy_choice(player_move_history, "rock")

\* a move chosen by the pattern strategy after a round the player lost
C38_Witness ==
    /\ Len(player_move_history) = 3
    /\ game_state = "detection"
    /\ via = "pattern"
    /\ Last(game_history).winner = "computer"
    /\ game_history[1].winner = "user"

-----------------------------------------------------------------------------
\* C39: a match terminates.  From the state reset_game leaves, the frames
\* and the clock advancing and no key being pressed, game_state changes only
\* from countdown to detection, from detection to result and from result to
\* countdown, rounds_played grows by one exactly when a detection ends in a
\* result, and if every detection ends (its window ends with a confirmed
\* label) the game-over check of run() eventually succeeds with
\* rounds_played = max_rounds after max_rounds resolved rounds.
C39_MatchTerminates ==
    /\ [][/\ game_state' # game_state
             => << game_state, game_state' >>
                  \in { << "countdown", "detection" >>, << "detection", "result" >>,
                        << "result", "countdown" >> }
          /\ rounds_played' \in { rounds_played, rounds_played + 1 }
          /\ rounds_played' = rounds_played + 1
             <=> << game_state, game_state' >> = << "detection", "result" >>]_vars
    /\ []<>(game_state # "detection")
       => <>(GameOver /\ rounds_played = max_rounds /\ Len(game_history) = max_rounds)

\* the game-over screen at the end of a match of max_rounds rounds
C39_Witness ==
    /\ GameOver
    /\ game_state = "result"
    /\ rounds_played = max_rounds
    /\ Len(game_history) = max_rounds
    /\ score.user + score.computer <= max_rounds
    /\ op = "no_key"

=============================================================================
